---- MODULE Spec2Model ----
(***************************************************************************)
(* Ruohobot perception core: the LD-19 LiDAR acquisition pipeline          *)
(* (src/src/core/lidar.py) and the SLAM layer that consumes its scans      *)
(* (src/src/core/slam.py).                                                 *)
(*                                                                         *)
(* Conventions.                                                            *)
(*   - An Optional[T] of the source is a sequence: << >> is None and       *)
(*     <<v>> is the value v.                                               *)
(*   - Distances are kept in millimetres (the source holds mm / 1000.0).   *)
(*   - Angles are kept in units of 1/AngleUnit degree, AngleUnit being     *)
(*     100 * 11: wire angles are centidegrees and the interpolation step   *)
(*     divides by 12 - 1, so every angle the decoder computes is an exact  *)
(*     integer in this unit (the source computes them in binary floating   *)
(*     point).                                                             *)
(*   - time.time() read for a scan's timestamp is a logical clock that     *)
(*     advances at every read, so a timestamp also identifies the scan     *)
(*     object.                                                             *)
(***************************************************************************)
EXTENDS Integers, Sequences, FiniteSets, TLC

(***************************************************************************)
(* Bounds of the model.                                                    *)
(***************************************************************************)
\* worker threads ever spawned by start_scanning
MaxSpawn == 2
\* LidarScan objects ever created (reads of the scan clock)
MaxScans == 2
\* passes of the read loop within one sweep assembly
MaxReads == 4
\* increments of scan_errors
MaxScanErrors == 1

\* update_odometry calls that integrate, per SLAMSystem
MaxPoses == 2

\* the latest value time.time() returns to update_odometry, in seconds
MaxTime == 1

\* marks in a row applied to one cell value
MaxMarks == 12
\* the integrations of one long run of update_odometry calls: more than the
\* pose history holds
MaxIntegrations == 1002
\* the largest coordinate of an end cell handed to _bresenham_line
MaxCell == 5

(***************************************************************************)
(* Bytes and CRC8                                                          *)
(***************************************************************************)
\* bit k of a byte
Bit(a, k) == (a \div (2 ^ k)) % 2

\* crc ^ b on bytes, tabulated
Xor ==
    [a \in 0..255 |-> [b \in 0..255 |->
        LET x(k) == ((Bit(a, k) + Bit(b, k)) % 2) * (2 ^ k)
        IN  x(0) + x(1) + x(2) + x(3) + x(4) + x(5) + x(6) + x(7)]]

table ==
    <<
    0, 77, 154, 215, 121, 52, 227, 174, 242, 191, 104, 37, 139, 198, 17, 92,
    169, 228, 51, 126, 208, 157, 74, 7, 91, 22, 193, 140, 34, 111, 184, 245,
    31, 82, 133, 200, 102, 43, 252, 177, 237, 160, 119, 58, 148, 217, 14, 67,
    182, 251, 44, 97, 207, 130, 85, 24, 68, 9, 222, 147, 61, 112, 167, 234,
    62, 115, 164, 233, 71, 10, 221, 144, 204, 129, 86, 27, 181, 248, 47, 98,
    151, 218, 13, 64, 238, 163, 116, 57, 101, 40, 255, 178, 28, 81, 134, 203,
    33, 108, 187, 246, 88, 21, 194, 143, 211, 158, 73, 4, 170, 231, 48, 125,
    136, 197, 18, 95, 241, 188, 107, 38, 122, 55, 224, 173, 3, 78, 153, 212,
    124, 49, 230, 171, 5, 72, 159, 210, 142, 195, 20, 89, 247, 186, 109, 32,
    213, 152, 79, 2, 172, 225, 54, 123, 39, 106, 189, 240, 94, 19, 196, 137,
    99, 46, 249, 180, 26, 87, 128, 205, 145, 220, 11, 70, 232, 165, 114, 63,
    202, 135, 80, 29, 179, 254, 41, 100, 56, 117, 162, 239, 65, 12, 219, 150,
    66, 15, 216, 149, 59, 118, 161, 236, 176, 253, 42, 103, 201, 132, 83, 30,
    235, 166, 113, 60, 146, 223, 8, 69, 25, 84, 131, 206, 96, 45, 250, 183,
    93, 16, 199, 138, 36, 105, 190, 243, 175, 226, 53, 120, 214, 155, 76, 1,
    244, 185, 110, 35, 141, 192, 23, 90, 6, 75, 156, 209, 127, 50, 229, 168 >>

\* fault injection: the low bit of crc ^ b is dropped from the table index
crc8LowBitBlind(data) ==
    LET n == Len(data)
        crc[c \in 0..255, lo \in 1..(n + 1), hi \in 0..n] ==
            IF lo > hi THEN c
            ELSE IF lo = hi THEN table[((Xor[c][data[lo]] \div 2) * 2) + 1]
            ELSE LET mid == (lo + hi) \div 2
                 IN  crc[crc[c, lo, mid], mid + 1, hi]
    IN  crc[0, 1, n]

\* crc = 0; for b in data: crc = table[(crc ^ b) & 0xFF]
\* crc[c, lo, hi] is the value of crc after the loop, entered with crc = c,
\* has consumed data[lo..hi]; the range is walked by halves
crc8(data) ==
    LET n == Len(data)
        crc[c \in 0..255, lo \in 1..(n + 1), hi \in 0..n] ==
            IF lo > hi THEN c
            ELSE IF lo = hi THEN table[(Xor[c][data[lo]] % 256) + 1]
            ELSE LET mid == (lo + hi) \div 2
                 IN  crc[crc[c, lo, mid], mid + 1, hi]
    IN  crc[0, 1, n]

\* int.from_bytes(packet[lo:lo+2], 'little'), lo being the 0-based offset
U16(packet, lo) == packet[lo + 1] + 256 * packet[lo + 2]

(***************************************************************************)
(* Points, packets and scans                                               *)
(***************************************************************************)
\* units per degree: centidegrees (/ 100.0) times the 12 - 1 interpolation steps
AngleUnit == 100 * 11

FullCircle == 360 * AngleUnit

\* fault injection: the limits of the range count as valid
ValidDistanceInclusive(mm) == 50 <= mm /\ mm <= 12000

\* valid = 0.05 < distance < 12.0, the distance being mm / 1000.0
ValidDistance(mm) == 50 < mm /\ mm < 12000

LidarPoint(angle, mm, intensity) ==
    [angle |-> angle, distance |-> mm, intensity |-> intensity,
     valid |-> ValidDistance(mm)]

\* the wire angles of a packet, in centidegrees
StartAngle(packet) == U16(packet, 4)

EndAngle(packet) == U16(packet, 42)

\* fault injection: a negative angle_diff is left as it is
AngleDiffNoWrap(packet) == EndAngle(packet) - StartAngle(packet)

\* angle_diff = end_angle - start_angle, plus 360 when negative (centidegrees)
AngleDiff(packet) ==
    LET d == EndAngle(packet) - StartAngle(packet)
    IN  IF d < 0 THEN d + 36000 ELSE d

\* angles[i] = (start_angle + i * angle_step) % 360.0 with angle_step = angle_diff / 11
PointAngle(packet, i) ==
    ((StartAngle(packet) * 11) + (i * AngleDiff(packet))) % FullCircle

\* the 12 points of an accepted packet, in wire order (i = 0..11)
PacketPoints(packet) ==
    [k \in 1..12 |->
        LET i == k - 1
            offset == 6 + i * 3
        IN  LidarPoint(PointAngle(packet, i), U16(packet, offset), packet[offset + 3])]

\* int(round(p.angle)): Python rounds halves to the even integer
RoundDeg(angle) ==
    LET q == angle \div AngleUnit
        r == angle % AngleUnit
    IN  IF 2 * r < AngleUnit THEN q
        ELSE IF 2 * r > AngleUnit THEN q + 1
        ELSE IF q % 2 = 0 THEN q ELSE q + 1

\* sorted(scan_points, key=lambda p: p.angle): the sort is stable, so point i
\* comes after the points of smaller angle and the earlier points of equal angle;
\* the ranks and the result are lists, built once
SortByAngle(s) ==
    LET before(i) ==
            {j \in 1..Len(s) : \/ s[j].angle < s[i].angle
                               \/ s[j].angle = s[i].angle /\ j < i}
        place(rank) ==
            [k \in 1..Len(s) |-> s[CHOOSE i \in 1..Len(s) : rank[i] = k - 1]] \o << >>
    IN  CHOOSE sorted \in
            {place(rank) : rank \in {[i \in 1..Len(s) |-> Cardinality(before(i))] \o << >>}} :
            TRUE

\* fault injection: the last point of a whole degree is kept, not the first
UniquePointsKeepLast(s) ==
    LET kept == {i \in 1..Len(s) :
                    \A j \in (i + 1)..Len(s) : RoundDeg(s[j].angle) # RoundDeg(s[i].angle)}
    IN  [k \in 1..Cardinality(kept) |->
            s[CHOOSE i \in kept : Cardinality({j \in kept : j < i}) = k - 1]]

\* seen_angles / unique_points: a point is kept when no earlier point of the
\* sequence rounds to the same whole degree
UniquePoints(s) ==
    LET first == {i \in 1..Len(s) :
                     \A j \in 1..(i - 1) : RoundDeg(s[j].angle) # RoundDeg(s[i].angle)}
        pick(kept) ==
            [k \in 1..Cardinality(kept) |->
                s[CHOOSE i \in kept : Cardinality({j \in kept : j < i}) = k - 1]] \o << >>
    IN  CHOOSE unique \in {pick(kept) : kept \in {first}} : TRUE

LidarScan(timestamp, points, frequency) ==
    [timestamp |-> timestamp, points |-> points, scan_frequency |-> frequency,
     total_points |-> Len(points)]

\* the tail of _read_ld19_scan: sort, deduplicate, wrap in a LidarScan; the
\* sorted list is bound once, as the local variable of the code is
FinishScan(scan_points, timestamp, frequency) ==
    CHOOSE scan \in {LidarScan(timestamp, UniquePoints(sorted), frequency) :
                        sorted \in {SortByAngle(scan_points)}} : TRUE

\* fault injection: range(170, 190) in place of range(170, 191)
SimulatedDistanceShortArc(i) ==
    IF i = 270 THEN 1500
    ELSE IF i = 90 THEN 2000
    ELSE IF i >= 170 /\ i < 190 THEN 1000
    ELSE 4000

\* the synthetic sweep of simulation mode, in millimetres
SimulatedDistance(i) ==
    IF i = 270 THEN 1500
    ELSE IF i = 90 THEN 2000
    ELSE IF i >= 170 /\ i <= 190 THEN 1000
    ELSE 4000

ProcessSimulatedScan(timestamp, frequency) ==
    LidarScan(timestamp,
              [k \in 1..360 |-> LidarPoint((k - 1) * AngleUnit, SimulatedDistance(k - 1), 0)],
              frequency)

(***************************************************************************)
(* What the serial port can deliver.  serial.read(2) returns up to two     *)
(* bytes and serial.read(45) up to 45; the bytes are the environment's.    *)
(***************************************************************************)
\* bytes 2..45 of a frame: speed, start angle, 12 x (distance, intensity),
\* end angle, device timestamp
FramePayload(start_cdeg, end_cdeg, mm, intensity) ==
    <<0, 0, start_cdeg % 256, start_cdeg \div 256>>
    \o [k \in 1..36 |-> IF k % 3 = 1 THEN mm % 256
                        ELSE IF k % 3 = 2 THEN mm \div 256
                        ELSE intensity]
    \o <<end_cdeg % 256, end_cdeg \div 256, 0, 0>>

\* a well-formed 47-byte frame
Frame(start_cdeg, end_cdeg, mm, intensity) ==
    LET body == <<84, 44>> \o FramePayload(start_cdeg, end_cdeg, mm, intensity)
    IN  Append(body, crc8(body))

\* 300 deg -> 330 deg, then 10 deg -> 40 deg: the second after the first wraps
FrameA == Frame(30000, 33000, 1000, 200)

FrameB == Frame(1000, 4000, 2500, 180)

\* bytes 2..45 of a frame whose 12 points have the given distances
FramePayloadOf(start_cdeg, end_cdeg, distances, intensity) ==
    <<0, 0, start_cdeg % 256, start_cdeg \div 256>>
    \o [k \in 1..36 |-> IF k % 3 = 1 THEN distances[(k + 2) \div 3] % 256
                        ELSE IF k % 3 = 2 THEN distances[(k + 2) \div 3] \div 256
                        ELSE intensity]
    \o <<end_cdeg % 256, end_cdeg \div 256, 0, 0>>

\* a well-formed 47-byte frame with the given distances
FrameOf(start_cdeg, end_cdeg, distances, intensity) ==
    LET body == <<84, 44>> \o FramePayloadOf(start_cdeg, end_cdeg, distances, intensity)
    IN  Append(body, crc8(body))

\* 0 deg -> 33 deg, distances at and around the limits of the valid range
FrameEdge ==
    FrameOf(0, 3300,
            <<0, 49, 50, 51, 60, 1000, 11900, 11999, 12000, 12001, 65535, 50>>, 100)

\* a frame whose payload bytes are all 0xFF
FrameOnes == FrameOf(65535, 65535, [k \in 1..12 |-> 65535], 255)

\* the frame with one bit of its byte k (1-based) inverted
FlipBit(frame, k, bit) == [frame EXCEPT ![k] = Xor[@][2 ^ bit]]

\* frames as sent, and as received with one bit behind the header inverted
CrcFrames == { FrameA, FrameEdge, FrameOnes }

FlippedFrames ==
    { FlipBit(frame, k, bit) : frame \in CrcFrames, k \in 3..47, bit \in 0..7 }

\* what serial.read(45) may return when the sensor reports distances at the
\* limits of its range
EdgeBodyReads == { SubSeq(FrameA, 3, 47), SubSeq(FrameEdge, 3, 47) }

\* what serial.read(2) may return: nothing, one byte, a wrong first byte,
\* a wrong second byte, the header
HeaderReads == { << >>, <<84>>, <<0, 44>>, <<84, 0>>, <<84, 44>> }

BadCrc(frame) == [frame EXCEPT ![47] = (frame[47] + 1) % 256]

\* what serial.read(45) may return after a header: the rest of a good frame,
\* of a frame with a wrong CRC byte, or a read cut short by the read timeout
BodyReads ==
    { SubSeq(FrameA, 3, 47), SubSeq(FrameB, 3, 47),
      SubSeq(BadCrc(FrameA), 3, 47), SubSeq(FrameA, 3, 46) }

\* one pass of the read loop: what serial.read(2) and serial.read(45) return
Read(header, body) == [header |-> header, body |-> body]

\* a frame from 0 to 330 degrees, its points 30 degrees apart: those at 0,
\* 90, 180 and 270 degrees carry the distances given, the others report 0
SweepFrame(distances) ==
    FrameOf(0, 33000,
            [k \in 1..12 |-> IF (k - 1) % 3 = 0 THEN distances[((k - 1) \div 3) + 1] ELSE 0],
            100)

\* a sweep: the frame, and the same frame again, which wraps
SweepReads(distances) ==
    [k \in 1..2 |-> Read(<<84, 44>>, SubSeq(SweepFrame(distances), 3, 47))]

\* sweeps seen from the middle of the map: a hit two cells ahead, hits beyond
\* the edge of the map to the left and behind, a point out of range to the
\* right; then a hit in the next cell ahead, a point at the lower limit of
\* validity, a hit at max_range behind, a hit two cells to the right
GridReadSeqs == { SweepReads(<<100, 130, 130, 200>>), SweepReads(<<60, 50, 150, 100>>) }

\* frames from 0 to 330 degrees, their points 30 degrees apart, with
\* distances out of order, repeated and invalid
ConeFrames ==
    { FrameOf(0, 33000, <<300, 0, 200, 100, 0, 500, 100, 49, 700, 250, 150, 400>>, 100),
      FrameOf(0, 33000, <<0, 900, 0, 0, 60, 0, 0, 60, 0, 0, 0, 800>>, 100) }

ConeBodyReads == { SubSeq(frame, 3, 47) : frame \in ConeFrames }

\* a frame of twelve points at 500 mm
WrapFrame(start_cdeg, end_cdeg) ==
    FrameOf(start_cdeg, end_cdeg, [k \in 1..12 |-> 500], 100)

\* streams of frames: frames that start at 350, 355, 5 and 10 degrees, each
\* ending before the next starts; frames that advance through 0 degrees
\* inside the second of them; a frame that starts exactly 180.00 degrees
\* behind the end of the one before, at 256.10 and at 256.00 degrees
WrapStreams ==
    { WrapFrame(35000, 35400) \o WrapFrame(35500, 35900) \o WrapFrame(500, 900)
          \o WrapFrame(1000, 1400),
      WrapFrame(34000, 35400) \o WrapFrame(35500, 400) \o WrapFrame(500, 900),
      WrapFrame(24000, 25610) \o WrapFrame(7610, 9000),
      WrapFrame(24000, 25600) \o WrapFrame(7600, 9000) }

\* streams of frames whose points lie half a degree apart, so that whole
\* degrees are shared: a frame before 0 degrees and one behind it, which
\* wraps; the same with the frame before 0 degrees sent twice, with other
\* distances.  In each frame the point of smallest angle is invalid.
DedupStreams ==
    { FrameOf(35000, 35550, <<0, 500, 600, 0, 0, 700, 40, 800, 900, 0, 1000, 1100>>, 100)
          \o FrameOf(0, 550, <<0, 510, 610, 0, 0, 710, 40, 810, 910, 0, 1010, 1110>>, 100),
      FrameOf(35000, 35550, <<20, 0, 620, 720, 0, 0, 820, 0, 920, 0, 1020, 0>>, 100)
          \o FrameOf(35000, 35550, <<0, 500, 600, 0, 0, 700, 40, 800, 900, 0, 1000, 1100>>, 100)
          \o FrameOf(0, 550, <<0, 510, 610, 0, 0, 710, 40, 810, 910, 0, 1010, 1110>>, 100) }

\* the reads of a whole assembly, for the specification that takes them in
\* one step: a lone byte and one good frame, after which the port is silent;
\* a good frame, a frame with a wrong CRC byte, and the frame that wraps
ReadSeqs ==
    { <<Read(<<84>>, << >>), Read(<<84, 44>>, SubSeq(FrameA, 3, 47))>>,
      <<Read(<<84, 44>>, SubSeq(FrameA, 3, 47)),
        Read(<<84, 44>>, SubSeq(BadCrc(FrameA), 3, 47)),
        Read(<<84, 44>>, SubSeq(FrameB, 3, 47))>> }

(***************************************************************************)
(* SLAMSystem: the occupancy grid.  Lengths are in millimetres, angles in  *)
(* units of 1/1100 degree, cell values in units of 0.05 (0 .. 20 for 0.0   *)
(* .. 1.0; the float32 rounding of a stored value, below 1e-7, is left     *)
(* out).  The configured map is 5 x 5 cells of 0.05 m and max_range 0.15 m.*)
(***************************************************************************)
\* config.get('map_width', 1000), in cells
map_width == 5

\* config.get('map_height', 1000), in cells
map_height == 5

\* config.get('map_resolution', 0.05): 50 mm per cell
map_resolution == 50

\* config.get('max_range', 10.0): 150 mm
max_range == 150

\* origin_x = -(map_width * map_resolution) / 2, and origin_y alike
origin_x == -((map_width * map_resolution) \div 2)

origin_y == -((map_height * map_resolution) \div 2)

\* cell values 0.5 and 1.0 and the steps 0.1 and 0.05, in units of 0.05
CellUnknown == 10

CellOne == 20

OccupiedStep == 2

FreeStep == 1

Min(a, b) == IF a < b THEN a ELSE b

Max(a, b) == IF a > b THEN a ELSE b

Abs(a) == IF a < 0 THEN -a ELSE a

\* np.full((map_height, map_width), 0.5): occupancy_grid[gy][gx]
NewGrid == [gy \in 0..(map_height - 1) |-> [gx \in 0..(map_width - 1) |-> CellUnknown]]

\* Pose(x, y, theta, timestamp)
Pose(x, y, theta, timestamp) == [x |-> x, y |-> y, theta |-> theta, timestamp |-> timestamp]

\* int(n / d) for d > 0: int() drops the fraction, towards zero
IntDiv(n, d) == IF n >= 0 THEN n \div d ELSE -((-n) \div d)

\* int((x - self.origin_x) / self.map_resolution)
GridX(x) == IntDiv(x - origin_x, map_resolution)

GridY(y) == IntDiv(y - origin_y, map_resolution)

\* np.cos and np.sin, on the multiples of 90 degrees, where they are -1, 0
\* or 1 up to a rounding error of 1e-16 that moves no coordinate used here
\* across a cell boundary; other angles are outside the modelled inputs
Cos(angle) ==
    CASE angle % FullCircle = 0 -> 1
      [] angle % FullCircle = 90 * AngleUnit -> 0
      [] angle % FullCircle = 180 * AngleUnit -> -1
      [] angle % FullCircle = 270 * AngleUnit -> 0

Sin(angle) ==
    CASE angle % FullCircle = 0 -> 0
      [] angle % FullCircle = 90 * AngleUnit -> 1
      [] angle % FullCircle = 180 * AngleUnit -> 0
      [] angle % FullCircle = 270 * AngleUnit -> -1

\* fault injection: the y step is taken only when the x step was not (elif)
BresenhamPassExclusive(dx, dy, sx, sy, x, y, err) ==
    LET e2 == 2 * err
    IN  IF e2 > -dy THEN [x |-> x + sx, y |-> y, err |-> err - dy]
        ELSE IF e2 < dx THEN [x |-> x, y |-> y + sy, err |-> err + dx]
        ELSE [x |-> x, y |-> y, err |-> err]

\* a pass of the while loop of _bresenham_line after its break was not
\* taken: e2 = 2 * err, the x step, the y step
BresenhamPass(dx, dy, sx, sy, x, y, err) ==
    LET e2 == 2 * err
        err1 == IF e2 > -dy THEN err - dy ELSE err
        xn == IF e2 > -dy THEN x + sx ELSE x
        err2 == IF e2 < dx THEN err1 + dx ELSE err1
        yn == IF e2 < dx THEN y + sy ELSE y
    IN  [x |-> xn, y |-> yn, err |-> err2]

\* _bresenham_line: the cells from (x0, y0) to (x1, y1), as <<x, y>> pairs
bresenham_line(x0, y0, x1, y1) ==
    LET dx == Abs(x1 - x0)
        dy == Abs(y1 - y0)
        sx == IF x0 < x1 THEN 1 ELSE -1
        sy == IF y0 < y1 THEN 1 ELSE -1
        RECURSIVE loop(_, _, _)
        loop(x, y, err) ==
            IF x = x1 /\ y = y1 THEN << <<x, y>> >>
            ELSE LET after == BresenhamPass(dx, dy, sx, sy, x, y, err)
                 IN  << <<x, y>> >> \o loop(after.x, after.y, after.err)
    IN  loop(x0, y0, dx - dy)

\* if 0 <= gx < self.map_width and 0 <= gy < self.map_height
InBounds(gx, gy) == 0 <= gx /\ gx < map_width /\ 0 <= gy /\ gy < map_height

\* fault injection: the occupied mark is not capped
MarkOccupiedUncapped(v) == v + OccupiedStep

\* min(1.0, v + 0.1)
MarkOccupied(v) == Min(CellOne, v + OccupiedStep)

\* max(0.0, v - 0.05)
MarkFree(v) == Max(0, v - FreeStep)

\* the loop of _update_ray over the cells of the line, from cell i on: a cell
\* inside the grid is marked occupied when it is the last of the line and free
\* otherwise, a cell outside is passed over
RECURSIVE MarkCells(_, _, _)
MarkCells(grid, cells, i) ==
    IF i > Len(cells) THEN grid
    ELSE LET gx == cells[i][1]
             gy == cells[i][2]
             marked ==
                 IF ~InBounds(gx, gy) THEN grid
                 ELSE IF i = Len(cells)
                 THEN [grid EXCEPT ![gy][gx] = MarkOccupied(@)]
                 ELSE [grid EXCEPT ![gy][gx] = MarkFree(@)]
         IN  MarkCells(marked, cells, i + 1)

\* _update_ray(start_x, start_y, end_x, end_y) on the grid
update_ray(grid, start_x, start_y, end_x, end_y) ==
    MarkCells(grid,
              bresenham_line(GridX(start_x), GridY(start_y), GridX(end_x), GridY(end_y)),
              1)

\* if not point.valid or point.distance > self.max_range: continue
Skipped(point) == ~point.valid \/ point.distance > max_range

\* one pass of the loop of _update_occupancy_grid: robot is the pose read at
\* its start, <<robot_x, robot_y, robot_theta>>
UpdatePoint(grid, robot, point) ==
    IF Skipped(point) THEN grid
    ELSE LET point_angle == point.angle + robot[3]
             point_x == robot[1] + point.distance * Cos(point_angle)
             point_y == robot[2] + point.distance * Sin(point_angle)
         IN  update_ray(grid, robot[1], robot[2], point_x, point_y)

\* the passes of the loop over the points from point i on; the skipped points
\* change nothing, the others are taken in their order
UpdatePoints(grid, robot, points, i) ==
    LET used == {j \in i..Len(points) : ~Skipped(points[j])}
        nth(k) == CHOOSE j \in used : Cardinality({h \in used : h < j}) = k - 1
        RECURSIVE pass(_, _)
        pass(g, k) ==
            IF k > Cardinality(used) THEN g
            ELSE pass(UpdatePoint(g, robot, points[nth(k)]), k + 1)
    IN  pass(grid, 1)

(***************************************************************************)
(* State                                                                   *)
(***************************************************************************)
\* the threads that call into LidarManager and SLAMSystem: the control loop
\* and the thread serving HTTP/telemetry requests
Callers == {"main", "http"}

\* worker threads, numbered in spawn order
Workers == 1..MaxSpawn

\* SLAMSystem objects that may be constructed on the LidarManager
Slams == {"slam1", "slam2"}

\* callbacks registered directly through set_scan_callback
UserCallbacks == {"user"}

\* deque(maxlen=100)
HistoryMaxLen == 100

VARIABLES
    \* LidarManager
    enabled,           \* self.enabled
    lidar_init,        \* __init__: the simulate argument, whether serial.Serial raised
    simulate,          \* self.simulate
    serial,            \* self.serial: "none" (None), "open" or "closed"
    scan_frequency,    \* self.scan_frequency
    is_scanning,       \* self.is_scanning
    scan_thread,       \* self.scan_thread: Optional worker
    current_scan,      \* self.current_scan: Optional LidarScan
    scan_history,      \* self.scan_history
    total_scans,       \* self.total_scans
    scan_errors,       \* self.scan_errors
    scan_callback,     \* self.scan_callback: "None" or a callback
    \* worker threads running _scan_loop
    nthreads,          \* threads spawned so far
    pc,                \* position of each worker
    scan_points,       \* _read_ld19_scan: scan_points
    last_end_angle,    \* _read_ld19_scan: last_end_angle (Optional, centidegrees)
    scan_complete,     \* _read_ld19_scan: scan_complete
    packets_collected, \* _read_ld19_scan: packets_collected
    serial_reads,      \* _read_ld19_scan: passes of the while loop so far
    processed_scan,    \* _scan_loop: processed_scan (Optional LidarScan)
    callee,            \* the callback a worker is executing ("None" outside a call)
    \* caller threads
    cpc,               \* position of each caller
    jthread,           \* stop_scanning: the thread being joined (Optional)
    odom,              \* update_odometry in progress: its SLAMSystem, arguments
                       \* and current_time (Optional)
    \* SLAMSystem objects
    built,             \* the SLAMSystem objects constructed so far
    is_mapping,        \* self.is_mapping
    total_scans_processed, \* self.total_scans_processed
    occupancy_grid,    \* self.occupancy_grid
    current_pose,      \* self.current_pose
    pose_history,      \* self.pose_history
    last_odom_time,    \* self._last_odom_time: Optional, absent until first set
    robot,             \* _update_occupancy_grid: robot_x, robot_y, robot_theta (Optional)
    next_point,        \* _update_occupancy_grid: index of the next point of the loop
    \* environment
    clock,             \* reads of time.time() for scan timestamps so far
    calls,             \* the callback invocations so far, in order
    rx,                \* the bytes received on the port and not yet read
    \* SLAMSystem._bresenham_line
    bresenham,         \* the arguments and locals of the call in progress or
                       \* returned last (Optional)
    \* StateMachine
    current_state,     \* self.current_state, by its value
    previous_state,    \* self.previous_state
    requested_state,   \* self.requested_state (Optional)
    \* MotorController
    emergency_stop_active, \* self.emergency_stop_active
    current_speeds,    \* self.current_speeds
    mc_sent,           \* the mc.set_speed commands of the latest step, in order
    \* SafetySystem
    safe_state,        \* self.safe_state
    emergency_active,  \* self.emergency_active
    safety_violations, \* self.safety_violations
    returned,          \* what the SafetySystem call of the latest step returned
                       \* (Optional: None, or no such call, is << >>)
    \* Robot
    last_state,        \* self._last_state (Optional)
    motors_stopped,    \* self._motors_stopped
    emergency_stop_executed, \* self._emergency_stop_executed
    last_command       \* self._last_command (Optional, absent until first set)

\* what __init__ settles: no other method assigns these
config_vars == <<enabled, lidar_init, simulate, scan_frequency>>

lidar_vars ==
    <<config_vars, serial, is_scanning, scan_thread, current_scan, scan_history,
      total_scans, scan_errors, scan_callback>>

\* the locals of _read_ld19_scan
read_vars == <<scan_points, last_end_angle, scan_complete, packets_collected, serial_reads>>

worker_vars == <<nthreads, pc, read_vars, processed_scan, callee>>

caller_vars == <<cpc, jthread, odom>>

\* the pose tracking of a SLAMSystem
pose_vars == <<current_pose, pose_history, last_odom_time>>

\* the locals of _update_occupancy_grid
update_vars == <<robot, next_point>>

grid_vars == <<occupancy_grid, pose_vars, update_vars>>

slam_vars == <<built, is_mapping, total_scans_processed, grid_vars>>

env_vars == <<clock, calls, rx>>

state_machine_vars == <<current_state, previous_state, requested_state>>

motor_vars == <<emergency_stop_active, current_speeds, mc_sent>>

safety_vars == <<safe_state, emergency_active, safety_violations, returned>>

\* the StateMachine, the MotorController, the SafetySystem and the Robot
\* that owns them
robot_vars ==
    <<state_machine_vars, motor_vars, safety_vars, last_state, motors_stopped,
      emergency_stop_executed, last_command>>

\* what lies outside the LidarManager and the SLAMSystem objects
platform_vars == <<bresenham, robot_vars>>

vars == <<lidar_vars, worker_vars, caller_vars, slam_vars, env_vars, platform_vars>>

(***************************************************************************)
(* LidarManager.__init__: simulation mode has no serial handle, hardware   *)
(* mode an open one; nothing is scanning and nothing is registered.        *)
(***************************************************************************)
\* fault injection: the enabled option of the configuration is not consulted
RequestedSimulationIgnoresEnabled(simulate_arg, is_enabled) == simulate_arg

\* self.simulate = simulate or not self.enabled
RequestedSimulation(simulate_arg, is_enabled) == simulate_arg \/ ~is_enabled

\* the mode and the serial handle: the port is opened only when simulation
\* is not requested, and except Exception turns a failed open into simulation
LidarManagerInit(simulate_arg, is_enabled, port_fails) ==
    LET requested == RequestedSimulation(simulate_arg, is_enabled)
        open_raised == ~requested /\ port_fails
    IN  /\ enabled = is_enabled
        /\ lidar_init = [simulate |-> simulate_arg, open_raised |-> open_raised]
        /\ simulate = (requested \/ open_raised)
        /\ serial = IF requested \/ open_raised THEN "none" ELSE "open"

InitLidar ==
    /\ \E simulate_arg \in BOOLEAN, is_enabled \in BOOLEAN, port_fails \in BOOLEAN :
           LidarManagerInit(simulate_arg, is_enabled, port_fails)
    /\ scan_frequency \in {0, 10}
    /\ is_scanning = FALSE
    /\ scan_thread = << >>
    /\ current_scan = << >>
    /\ scan_history = << >>
    /\ total_scans = 0
    /\ scan_errors = 0
    /\ scan_callback = "None"

InitRest ==
    /\ nthreads = 0
    /\ pc = [w \in Workers |-> "unborn"]
    /\ scan_points = [w \in Workers |-> << >>]
    /\ last_end_angle = [w \in Workers |-> << >>]
    /\ scan_complete = [w \in Workers |-> FALSE]
    /\ packets_collected = [w \in Workers |-> 0]
    /\ serial_reads = [w \in Workers |-> 0]
    /\ processed_scan = [w \in Workers |-> << >>]
    /\ callee = [w \in Workers |-> "None"]
    /\ cpc = [c \in Callers |-> "idle"]
    /\ jthread = [c \in Callers |-> << >>]
    /\ odom = [c \in Callers |-> << >>]
    /\ built = {}
    /\ is_mapping = [s \in Slams |-> FALSE]
    /\ total_scans_processed = [s \in Slams |-> 0]
    /\ occupancy_grid = [s \in Slams |-> NewGrid]
    /\ current_pose = [s \in Slams |-> Pose(0, 0, 0, 0)]
    /\ pose_history = [s \in Slams |-> << >>]
    /\ last_odom_time = [s \in Slams |-> << >>]
    /\ robot = [w \in Workers |-> << >>]
    /\ next_point = [w \in Workers |-> 0]
    /\ clock = 0
    /\ calls = << >>
    /\ rx = << >>
    /\ bresenham = << >>
    /\ current_state = "idle"
    /\ previous_state = "idle"
    /\ requested_state = << >>
    /\ emergency_stop_active = FALSE
    /\ current_speeds = [motor_id \in 1..3 |-> 0]
    /\ mc_sent = << >>
    /\ safe_state = TRUE
    /\ emergency_active = FALSE
    /\ safety_violations = << >>
    /\ returned = << >>
    /\ last_state = << >>
    /\ motors_stopped = FALSE
    /\ emergency_stop_executed = FALSE
    /\ last_command = << >>

\* a LidarManager enabled in its configuration, whose port opens when asked
Init == InitLidar /\ InitRest /\ enabled /\ ~lidar_init.open_raised

(***************************************************************************)
(* The acquisition thread: _scan_loop and _read_ld19_scan                  *)
(***************************************************************************)
Alive(w) == pc[w] \notin {"unborn", "done"}

\* while self.is_scanning: the flag is down, the loop and the thread end
ScanLoopExit(w) ==
    /\ pc[w] = "loop"
    /\ ~is_scanning
    /\ pc' = [pc EXCEPT ![w] = "done"]
    /\ UNCHANGED <<platform_vars, lidar_vars, nthreads, read_vars, processed_scan, callee, caller_vars,
                   slam_vars, env_vars>>

\* simulation mode: one synthetic sweep per iteration; processed_scan is not
\* None and self.current_scan = processed_scan
SimulateScan(w) ==
    /\ pc[w] = "loop"
    /\ is_scanning
    /\ simulate
    /\ clock < MaxScans
    /\ clock' = clock + 1
    /\ processed_scan' =
           [processed_scan EXCEPT ![w] = <<ProcessSimulatedScan(clock + 1, scan_frequency)>>]
    /\ current_scan' = processed_scan'[w]
    /\ pc' = [pc EXCEPT ![w] = "publish"]
    /\ UNCHANGED <<platform_vars, config_vars, serial, is_scanning, scan_thread,
                   scan_history, total_scans, scan_errors, scan_callback, nthreads,
                   read_vars, callee, caller_vars, slam_vars, calls, rx>>

\* _read_ld19_scan with no open serial port returns None: no scan is
\* processed in this iteration
ReadLd19NotOpen(w) ==
    /\ pc[w] = "loop"
    /\ is_scanning
    /\ ~simulate
    /\ serial # "open"
    /\ processed_scan' = [processed_scan EXCEPT ![w] = << >>]
    /\ pc' = [pc EXCEPT ![w] = "sleep"]
    /\ UNCHANGED <<platform_vars, lidar_vars, nthreads, read_vars, callee, caller_vars, slam_vars,
                   env_vars>>

\* the three checks a candidate frame passes before it is parsed: the header
\* read, the length of header + body, the CRC
HeaderOk(header) == Len(header) = 2 /\ header[1] = 84 /\ header[2] = 44

\* fault injection: the CRC byte is not compared
PacketOkNoCrc(packet) == Len(packet) = 47

PacketOk(packet) == Len(packet) = 47 /\ crc8(SubSeq(packet, 1, 46)) = packet[47]

\* last_end_angle - start_angle > 180 for angles that are the doubles
\* centidegrees / 100.0 (both 16-bit centidegree values): true above 180.00
\* degrees, false below, and at exactly 180.00 degrees decided by the
\* rounding of the two quotients and of the difference, which depends on
\* the binades of the quotients and on the value modulo 25
Above180(last_end_cdeg, start_cdeg) ==
    \/ last_end_cdeg - start_cdeg > 180 * 100
    \/ /\ last_end_cdeg - start_cdeg = 180 * 100
       /\ \/ /\ last_end_cdeg \in 25600..51199
             /\ start_cdeg \in 6400..12799
             /\ last_end_cdeg % 25 \in {10, 16, 22}
          \/ /\ last_end_cdeg \in 25600..51199
             /\ start_cdeg \in 12800..25599
             /\ last_end_cdeg % 25 \in {4, 10, 16, 17, 22, 23}
          \/ /\ last_end_cdeg \in 51200..65535
             /\ start_cdeg \in 25600..51199
             /\ last_end_cdeg % 25 \in {7, 8, 9, 19, 20, 21}

\* detect wraparound (end of scan): angles in degrees are centidegrees / 100.0
Wraparound(last_end, packet) ==
    /\ last_end # << >>
    /\ StartAngle(packet) < last_end[1]
    /\ Above180(last_end[1], StartAngle(packet))

\* the locals of _read_ld19_scan of worker w, as a record
Locals(w) ==
    [scan_points |-> scan_points[w], last_end_angle |-> last_end_angle[w],
     scan_complete |-> scan_complete[w], packets_collected |-> packets_collected[w],
     serial_reads |-> serial_reads[w]]

\* fault injection: the packet that flags completion is parsed, and its
\* points are not appended
ReadStepWithoutLast(locals, header, body) ==
    IF HeaderOk(header) /\ PacketOk(header \o body)
    THEN LET packet == header \o body
             complete == Wraparound(locals.last_end_angle, packet)
         IN  [scan_points |-> IF complete THEN locals.scan_points
                              ELSE locals.scan_points \o PacketPoints(packet),
              last_end_angle |-> <<EndAngle(packet)>>,
              scan_complete |-> locals.scan_complete \/ complete,
              packets_collected |-> locals.packets_collected + 1,
              serial_reads |-> locals.serial_reads + 1]
    ELSE [locals EXCEPT !.serial_reads = @ + 1]

\* one pass of the while loop of _read_ld19_scan on the locals: a frame that
\* fails a check is left by continue, an accepted one is parsed
ReadStep(locals, header, body) ==
    IF HeaderOk(header) /\ PacketOk(header \o body)
    THEN LET packet == header \o body
         IN  [scan_points |-> locals.scan_points \o PacketPoints(packet),
              last_end_angle |-> <<EndAngle(packet)>>,
              scan_complete |-> locals.scan_complete \/ Wraparound(locals.last_end_angle, packet),
              packets_collected |-> locals.packets_collected + 1,
              serial_reads |-> locals.serial_reads + 1]
    ELSE [locals EXCEPT !.serial_reads = @ + 1]

\* the passes of the while loop over a sequence of reads, from read i on:
\* the loop is left as soon as scan_complete is set
RECURSIVE ReadSteps(_, _, _)
ReadSteps(locals, reads, i) ==
    IF i > Len(reads) \/ locals.scan_complete THEN locals
    ELSE ReadSteps(ReadStep(locals, reads[i].header, reads[i].body), reads, i + 1)

SetLocals(w, locals) ==
    /\ scan_points' = [scan_points EXCEPT ![w] = locals.scan_points]
    /\ last_end_angle' = [last_end_angle EXCEPT ![w] = locals.last_end_angle]
    /\ scan_complete' = [scan_complete EXCEPT ![w] = locals.scan_complete]
    /\ packets_collected' = [packets_collected EXCEPT ![w] = locals.packets_collected]
    /\ serial_reads' = [serial_reads EXCEPT ![w] = locals.serial_reads]

\* the locals of _read_ld19_scan at its start
NoLocals ==
    [scan_points |-> << >>, last_end_angle |-> << >>, scan_complete |-> FALSE,
     packets_collected |-> 0, serial_reads |-> 0]

\* _read_ld19_scan with an open port: a new assembly starts
ReadLd19Begin(w) ==
    /\ pc[w] = "loop"
    /\ is_scanning
    /\ ~simulate
    /\ serial = "open"
    /\ SetLocals(w, NoLocals)
    /\ pc' = [pc EXCEPT ![w] = "assemble"]
    /\ UNCHANGED <<platform_vars, lidar_vars, nthreads, processed_scan, callee, caller_vars, slam_vars,
                   env_vars>>

\* one pass of the while loop: serial.read(2) returns header; when it is the
\* header magic serial.read(45) returns body
ReadPacket(w, header, body) ==
    /\ pc[w] = "assemble"
    /\ ~scan_complete[w]
    /\ serial = "open"
    /\ serial_reads[w] < MaxReads
    /\ SetLocals(w, ReadStep(Locals(w), header, body))
    /\ UNCHANGED <<platform_vars, lidar_vars, nthreads, pc, processed_scan, callee, caller_vars,
                   slam_vars, env_vars>>

\* the device sends bytes, which wait in the receive buffer of the port
Receive(stream) ==
    /\ serial = "open"
    /\ rx = << >>
    /\ rx' = stream
    /\ UNCHANGED <<platform_vars, lidar_vars, worker_vars, caller_vars, slam_vars, clock, calls>>

\* serial.read(size): the bytes a read of size bytes takes from the receive
\* buffer; fewer than size when the read times out
SerialRead(buffer, size) == SubSeq(buffer, 1, Min(size, Len(buffer)))

\* the receive buffer after the read
AfterRead(buffer, size) == SubSeq(buffer, Min(size, Len(buffer)) + 1, Len(buffer))

\* one pass of the while loop on the bytes of the port: serial.read(2), and
\* serial.read(45) when the two bytes are the header magic
ReadStream(w) ==
    /\ pc[w] = "assemble"
    /\ ~scan_complete[w]
    /\ serial = "open"
    /\ serial_reads[w] < MaxReads
    /\ LET header == SerialRead(rx, 2)
           rest == AfterRead(rx, 2)
       IN  IF HeaderOk(header)
           THEN /\ SetLocals(w, ReadStep(Locals(w), header, SerialRead(rest, 45)))
                /\ rx' = AfterRead(rest, 45)
           ELSE /\ SetLocals(w, ReadStep(Locals(w), header, << >>))
                /\ rx' = rest
    /\ UNCHANGED <<platform_vars, lidar_vars, nthreads, pc, processed_scan, callee, caller_vars,
                   slam_vars, clock, calls>>

\* a pass of the while loop after MaxReads passes have been counted, which
\* rejects what it reads: the bytes are consumed and no local changes
ReadStreamRejected(w) ==
    /\ pc[w] = "assemble"
    /\ ~scan_complete[w]
    /\ serial = "open"
    /\ serial_reads[w] = MaxReads
    /\ LET header == SerialRead(rx, 2)
           rest == AfterRead(rx, 2)
       IN  IF HeaderOk(header)
           THEN /\ ~PacketOk(header \o SerialRead(rest, 45))
                /\ rx' = AfterRead(rest, 45)
           ELSE rx' = rest
    /\ UNCHANGED <<platform_vars, lidar_vars, worker_vars, caller_vars, slam_vars, clock, calls>>

\* _read_ld19_scan with an open port, the passes of its while loop over the
\* reads of the whole assembly taken in one step: the locals are private to
\* the thread
ReadLd19Scan(w, reads) ==
    /\ pc[w] = "loop"
    /\ is_scanning
    /\ ~simulate
    /\ serial = "open"
    /\ SetLocals(w, ReadSteps(NoLocals, reads, 1))
    /\ pc' = [pc EXCEPT ![w] = "assemble"]
    /\ UNCHANGED <<platform_vars, lidar_vars, nthreads, processed_scan, callee, caller_vars, slam_vars,
                   env_vars>>

\* the return of _read_ld19_scan: the accumulated points sorted,
\* deduplicated and wrapped in a LidarScan stamped time.time(); the scan is
\* not None and self.current_scan = processed_scan
ReturnScan(w) ==
    /\ clock < MaxScans
    /\ clock' = clock + 1
    /\ processed_scan' =
           [processed_scan EXCEPT
               ![w] = <<FinishScan(scan_points[w], clock + 1, scan_frequency)>>]
    /\ scan_points' = [scan_points EXCEPT ![w] = << >>]
    /\ last_end_angle' = [last_end_angle EXCEPT ![w] = << >>]
    /\ packets_collected' = [packets_collected EXCEPT ![w] = 0]
    /\ serial_reads' = [serial_reads EXCEPT ![w] = 0]
    /\ current_scan' = processed_scan'[w]
    /\ pc' = [pc EXCEPT ![w] = "publish"]

\* the while loop ends because scan_complete is set
AssemblyComplete(w) ==
    /\ pc[w] = "assemble"
    /\ scan_complete[w]
    /\ ReturnScan(w)
    /\ UNCHANGED <<platform_vars, config_vars, serial, is_scanning, scan_thread,
                   scan_history, total_scans, scan_errors, scan_callback, nthreads,
                   scan_complete, callee, caller_vars, slam_vars, calls, rx>>

\* fault injection: the time limit is looked at only after a read that
\* returned no byte
AssemblyTimeoutOnSilence(w) ==
    /\ pc[w] = "assemble"
    /\ ~scan_complete[w]
    /\ rx = << >>
    /\ ReturnScan(w)
    /\ UNCHANGED <<platform_vars, config_vars, serial, is_scanning, scan_thread,
                   scan_history, total_scans, scan_errors, scan_callback, nthreads,
                   scan_complete, callee, caller_vars, slam_vars, calls, rx>>

\* the while loop ends because time.time() - start_time reached the timeout
AssemblyTimeout(w) ==
    /\ pc[w] = "assemble"
    /\ ~scan_complete[w]
    /\ ReturnScan(w)
    /\ UNCHANGED <<platform_vars, config_vars, serial, is_scanning, scan_thread,
                   scan_history, total_scans, scan_errors, scan_callback, nthreads,
                   scan_complete, callee, caller_vars, slam_vars, calls, rx>>

\* a serial read raises (an I/O error, or the port was closed under the
\* reader): except Exception of the while body is entered
ReadError(w) ==
    /\ pc[w] = "assemble"
    /\ ~scan_complete[w]
    /\ pc' = [pc EXCEPT ![w] = "read_error"]
    /\ UNCHANGED <<platform_vars, lidar_vars, nthreads, read_vars, processed_scan, callee, caller_vars,
                   slam_vars, env_vars>>

\* except Exception: the error is logged and break leaves the while loop; the
\* function goes on to its return
ReadErrorBreak(w) ==
    /\ pc[w] = "read_error"
    /\ ReturnScan(w)
    /\ UNCHANGED <<platform_vars, config_vars, serial, is_scanning, scan_thread,
                   scan_history, total_scans, scan_errors, scan_callback, nthreads,
                   scan_complete, callee, caller_vars, slam_vars, calls, rx>>

\* deque.append with maxlen: the oldest element leaves a full deque
DequeAppend(deque, x) ==
    IF Len(deque) >= HistoryMaxLen
    THEN Append(SubSeq(deque, 2, Len(deque)), x)
    ELSE Append(deque, x)

\* self.scan_history.append(processed_scan); self.total_scans += 1
PublishHistory(w) ==
    /\ pc[w] = "publish"
    /\ scan_history' = DequeAppend(scan_history, processed_scan[w][1])
    /\ total_scans' = total_scans + 1
    /\ pc' = [pc EXCEPT ![w] = "callback"]
    /\ UNCHANGED <<platform_vars, config_vars, serial, is_scanning, scan_thread,
                   current_scan, scan_errors, scan_callback, nthreads, read_vars,
                   processed_scan, callee, caller_vars, slam_vars, env_vars>>

\* if self.scan_callback: nothing is registered
NoCallback(w) ==
    /\ pc[w] = "callback"
    /\ scan_callback = "None"
    /\ processed_scan' = [processed_scan EXCEPT ![w] = << >>]
    /\ pc' = [pc EXCEPT ![w] = "sleep"]
    /\ UNCHANGED <<platform_vars, lidar_vars, nthreads, read_vars, callee, caller_vars, slam_vars,
                   env_vars>>

\* fault injection: _process_lidar_scan does not test is_mapping
ProcessLidarScanAlways(callback) ==
    IF callback \in Slams THEN "in_slam" ELSE "in_callback"

\* where a call of the callback leads: _process_lidar_scan returns at once
\* (if not self.is_mapping: return) or goes on to the grid update
ProcessLidarScanEntry(callback) ==
    IF callback \in Slams /\ is_mapping[callback] THEN "in_slam" ELSE "in_callback"

\* if self.scan_callback: self.scan_callback(processed_scan): the callback
\* registered at this moment is entered on the worker thread.
\* SLAMSystem._process_lidar_scan returns at once unless is_mapping is set.
CallbackEnter(w) ==
    /\ pc[w] = "callback"
    /\ scan_callback # "None"
    /\ callee' = [callee EXCEPT ![w] = scan_callback]
    /\ calls' = Append(calls, [callback |-> scan_callback,
                               scan |-> processed_scan[w][1].timestamp])
    /\ pc' = [pc EXCEPT ![w] = ProcessLidarScanEntry(scan_callback)]
    /\ UNCHANGED <<platform_vars, lidar_vars, nthreads, read_vars, processed_scan, caller_vars,
                   slam_vars, clock, rx>>

\* robot_x, robot_y, robot_theta as _update_occupancy_grid reads them
RobotOf(pose) == <<pose.x, pose.y, pose.theta>>

\* _process_lidar_scan of a mapping SLAMSystem enters _update_occupancy_grid,
\* which reads the pose once, before its loop
UpdateOccupancyGridBegin(w) ==
    /\ pc[w] = "in_slam"
    /\ robot[w] = << >>
    /\ robot' = [robot EXCEPT ![w] = <<RobotOf(current_pose[callee[w]])>>]
    /\ next_point' = [next_point EXCEPT ![w] = 1]
    /\ UNCHANGED <<platform_vars, lidar_vars, nthreads, pc, read_vars, processed_scan, callee,
                   caller_vars, built, is_mapping, total_scans_processed,
                   occupancy_grid, pose_vars, env_vars>>

\* the three reads of _update_occupancy_grid one by one:
\* robot_x = self.current_pose.x
ReadRobotX(w) ==
    /\ pc[w] = "in_slam"
    /\ robot[w] = << >>
    /\ robot' = [robot EXCEPT ![w] = <<(<<current_pose[callee[w]].x>>)>>]
    /\ UNCHANGED <<platform_vars, lidar_vars, nthreads, pc, read_vars, processed_scan, callee,
                   caller_vars, built, is_mapping, total_scans_processed,
                   occupancy_grid, pose_vars, next_point, env_vars>>

\* robot_y = self.current_pose.y
ReadRobotY(w) ==
    /\ pc[w] = "in_slam"
    /\ robot[w] # << >>
    /\ Len(robot[w][1]) = 1
    /\ robot' = [robot EXCEPT ![w] = <<Append(@[1], current_pose[callee[w]].y)>>]
    /\ UNCHANGED <<platform_vars, lidar_vars, nthreads, pc, read_vars, processed_scan, callee,
                   caller_vars, built, is_mapping, total_scans_processed,
                   occupancy_grid, pose_vars, next_point, env_vars>>

\* robot_theta = self.current_pose.theta, after which the loop begins
ReadRobotTheta(w) ==
    /\ pc[w] = "in_slam"
    /\ robot[w] # << >>
    /\ Len(robot[w][1]) = 2
    /\ robot' = [robot EXCEPT ![w] = <<Append(@[1], current_pose[callee[w]].theta)>>]
    /\ next_point' = [next_point EXCEPT ![w] = 1]
    /\ UNCHANGED <<platform_vars, lidar_vars, nthreads, pc, read_vars, processed_scan, callee,
                   caller_vars, built, is_mapping, total_scans_processed,
                   occupancy_grid, pose_vars, env_vars>>

\* one pass of the loop of _update_occupancy_grid: the next point of the scan
UpdateOccupancyGridPoint(w) ==
    /\ pc[w] = "in_slam"
    /\ robot[w] # << >>
    /\ next_point[w] <= Len(processed_scan[w][1].points)
    /\ occupancy_grid' =
           [occupancy_grid EXCEPT
               ![callee[w]] = UpdatePoint(@, robot[w][1],
                                          processed_scan[w][1].points[next_point[w]])]
    /\ next_point' = [next_point EXCEPT ![w] = @ + 1]
    /\ UNCHANGED <<platform_vars, lidar_vars, nthreads, pc, read_vars, processed_scan, callee,
                   caller_vars, built, is_mapping, total_scans_processed, pose_vars,
                   robot, env_vars>>

\* the callback returns.  In a SLAMSystem that was mapping at the entry, what
\* is left of _update_occupancy_grid runs to its end (all of it when the
\* thread was not interrupted) and total_scans_processed += 1
CallbackReturn(w) ==
    /\ pc[w] \in {"in_callback", "in_slam"}
    /\ total_scans_processed' =
           IF pc[w] = "in_slam"
           THEN [total_scans_processed EXCEPT ![callee[w]] = @ + 1]
           ELSE total_scans_processed
    /\ occupancy_grid' =
           IF pc[w] = "in_slam"
           THEN [occupancy_grid EXCEPT
                    ![callee[w]] =
                        IF robot[w] = << >>
                        THEN UpdatePoints(@, RobotOf(current_pose[callee[w]]),
                                          processed_scan[w][1].points, 1)
                        ELSE UpdatePoints(@, robot[w][1], processed_scan[w][1].points,
                                          next_point[w])]
           ELSE occupancy_grid
    /\ robot' = [robot EXCEPT ![w] = << >>]
    /\ next_point' = [next_point EXCEPT ![w] = 0]
    /\ callee' = [callee EXCEPT ![w] = "None"]
    /\ processed_scan' = [processed_scan EXCEPT ![w] = << >>]
    /\ pc' = [pc EXCEPT ![w] = "sleep"]
    /\ UNCHANGED <<platform_vars, lidar_vars, nthreads, read_vars, caller_vars, built, is_mapping,
                   pose_vars, env_vars>>

\* fault injection: no try around the call, the exception of the callback
\* reaches except Exception of the loop, which counts it
CallbackRaiseUncaught(w) ==
    /\ pc[w] = "in_callback"
    /\ callee[w] \in UserCallbacks
    /\ scan_errors < MaxScanErrors
    /\ scan_errors' = scan_errors + 1
    /\ callee' = [callee EXCEPT ![w] = "None"]
    /\ processed_scan' = [processed_scan EXCEPT ![w] = << >>]
    /\ pc' = [pc EXCEPT ![w] = "loop"]
    /\ UNCHANGED <<platform_vars, config_vars, serial, is_scanning, scan_thread,
                   current_scan, scan_history, total_scans, scan_callback, nthreads,
                   read_vars, caller_vars, slam_vars, env_vars>>

\* the callback raises: except Exception at the call site is entered.
\* (_process_lidar_scan catches its own exceptions and never raises.)
CallbackRaise(w) ==
    /\ pc[w] = "in_callback"
    /\ callee[w] \in UserCallbacks
    /\ callee' = [callee EXCEPT ![w] = "None"]
    /\ pc' = [pc EXCEPT ![w] = "callback_error"]
    /\ UNCHANGED <<platform_vars, lidar_vars, nthreads, read_vars, processed_scan, caller_vars,
                   slam_vars, env_vars>>

\* except Exception at the call site: a warning is logged, nothing else
CallbackWarning(w) ==
    /\ pc[w] = "callback_error"
    /\ processed_scan' = [processed_scan EXCEPT ![w] = << >>]
    /\ pc' = [pc EXCEPT ![w] = "sleep"]
    /\ UNCHANGED <<platform_vars, lidar_vars, nthreads, read_vars, callee, caller_vars, slam_vars,
                   env_vars>>

\* time.sleep(1.0 / self.scan_frequency), then the next iteration
Sleep(w) ==
    /\ pc[w] = "sleep"
    /\ scan_frequency # 0
    /\ pc' = [pc EXCEPT ![w] = "loop"]
    /\ UNCHANGED <<platform_vars, lidar_vars, nthreads, read_vars, processed_scan, callee, caller_vars,
                   slam_vars, env_vars>>

\* fault injection: the exception of an iteration is not caught in the loop
\* and ends the thread
ScanLoopErrorEnds(w) ==
    /\ pc[w] = "sleep"
    /\ scan_frequency = 0
    /\ pc' = [pc EXCEPT ![w] = "done"]
    /\ processed_scan' = [processed_scan EXCEPT ![w] = << >>]
    /\ UNCHANGED <<platform_vars, lidar_vars, nthreads, read_vars, callee, caller_vars, slam_vars,
                   env_vars>>

\* 1.0 / self.scan_frequency raises ZeroDivisionError when scan_frequency is
\* configured 0: except Exception of _scan_loop counts it, sleeps 0.1 s and
\* the loop goes on
ScanLoopError(w) ==
    /\ pc[w] = "sleep"
    /\ scan_frequency = 0
    /\ scan_errors < MaxScanErrors
    /\ scan_errors' = scan_errors + 1
    /\ pc' = [pc EXCEPT ![w] = "loop"]
    /\ UNCHANGED <<platform_vars, config_vars, serial, is_scanning, scan_thread,
                   current_scan, scan_history, total_scans, scan_callback, nthreads,
                   read_vars, processed_scan, callee, caller_vars, slam_vars, env_vars>>

\* what a worker does with a scan in hand or none: publish, call back, sleep
Deliver(w) ==
    \/ PublishHistory(w)
    \/ NoCallback(w)
    \/ CallbackEnter(w)
    \/ CallbackReturn(w)
    \/ CallbackRaise(w)
    \/ CallbackWarning(w)
    \/ Sleep(w)
    \/ ScanLoopError(w)

\* a worker thread, the reads of an assembly taken in one step
Worker(w) ==
    \/ ScanLoopExit(w)
    \/ SimulateScan(w)
    \/ ReadLd19NotOpen(w)
    \/ \E reads \in ReadSeqs : ReadLd19Scan(w, reads)
    \/ AssemblyComplete(w)
    \/ AssemblyTimeout(w)
    \/ ReadError(w)
    \/ ReadErrorBreak(w)
    \/ Deliver(w)

(***************************************************************************)
(* The callers: start_scanning, stop_scanning, set_scan_callback, the      *)
(* queries, and the SLAMSystem operations that reach the LidarManager      *)
(***************************************************************************)
\* calls of start_scanning that have passed the check and will spawn
Starting == {c \in Callers : cpc[c] = "start_set"}

\* start_scanning: if self.is_scanning: return False
StartScanningNoop(c) ==
    /\ cpc[c] = "idle"
    /\ is_scanning
    /\ UNCHANGED vars

\* start_scanning: if self.is_scanning: the flag is down, the call goes on
StartScanningIdle(c) ==
    /\ cpc[c] = "idle"
    /\ ~is_scanning
    /\ nthreads + Cardinality(Starting) < MaxSpawn
    /\ cpc' = [cpc EXCEPT ![c] = "start_set"]
    /\ UNCHANGED <<platform_vars, lidar_vars, worker_vars, jthread, odom, slam_vars, env_vars>>

\* self.is_scanning = True; a new thread running _scan_loop is stored in
\* self.scan_thread and started; return True
StartScanningSpawn(c) ==
    /\ cpc[c] = "start_set"
    /\ is_scanning' = TRUE
    /\ nthreads' = nthreads + 1
    /\ scan_thread' = <<nthreads + 1>>
    /\ pc' = [pc EXCEPT ![nthreads + 1] = "loop"]
    /\ cpc' = [cpc EXCEPT ![c] = "idle"]
    /\ UNCHANGED <<platform_vars, config_vars, serial, current_scan, scan_history,
                   total_scans, scan_errors, scan_callback, read_vars, processed_scan,
                   callee, jthread, odom, slam_vars, env_vars>>

\* if self.serial: self.serial.close()
SerialClosed == IF serial = "none" THEN "none" ELSE "closed"

\* stop_scanning: self.is_scanning = False; a live self.scan_thread is
\* joined, else the serial handle is closed at once and the call returns
StopScanningBegin(c) ==
    /\ cpc[c] = "idle"
    /\ is_scanning' = FALSE
    /\ IF scan_thread # << >> /\ Alive(scan_thread[1])
       THEN /\ jthread' = [jthread EXCEPT ![c] = scan_thread]
            /\ cpc' = [cpc EXCEPT ![c] = "stop_join"]
            /\ serial' = serial
       ELSE /\ UNCHANGED <<jthread, cpc>>
            /\ serial' = SerialClosed
    /\ UNCHANGED <<platform_vars, config_vars, scan_thread, current_scan, scan_history,
                   total_scans, scan_errors, scan_callback, worker_vars, odom, slam_vars,
                   env_vars>>

\* join(timeout=2.0) returns, because the thread has ended or because two
\* seconds have passed with the thread still inside a read, a callback or a
\* sleep; the serial handle is closed and stop_scanning returns
StopScanningClose(c, timed_out) ==
    /\ cpc[c] = "stop_join"
    /\ timed_out <=> pc[jthread[c][1]] # "done"
    /\ serial' = SerialClosed
    /\ jthread' = [jthread EXCEPT ![c] = << >>]
    /\ cpc' = [cpc EXCEPT ![c] = "idle"]
    /\ UNCHANGED <<platform_vars, config_vars, is_scanning, scan_thread, current_scan,
                   scan_history, total_scans, scan_errors, scan_callback, worker_vars,
                   odom, slam_vars, env_vars>>

\* shutdown: self.stop_scanning() as above, then self.serial = None
ShutdownBegin(c) ==
    /\ cpc[c] = "idle"
    /\ is_scanning' = FALSE
    /\ IF scan_thread # << >> /\ Alive(scan_thread[1])
       THEN /\ jthread' = [jthread EXCEPT ![c] = scan_thread]
            /\ cpc' = [cpc EXCEPT ![c] = "shutdown_join"]
            /\ serial' = serial
       ELSE /\ UNCHANGED <<jthread, cpc>>
            /\ serial' = "none"
    /\ UNCHANGED <<platform_vars, config_vars, scan_thread, current_scan, scan_history, total_scans,
                   scan_errors, scan_callback, worker_vars, odom, slam_vars, env_vars>>

\* shutdown: the join of stop_scanning returns, the handle is closed and dropped
ShutdownEnd(c, timed_out) ==
    /\ cpc[c] = "shutdown_join"
    /\ timed_out <=> pc[jthread[c][1]] # "done"
    /\ serial' = "none"
    /\ jthread' = [jthread EXCEPT ![c] = << >>]
    /\ cpc' = [cpc EXCEPT ![c] = "idle"]
    /\ UNCHANGED <<platform_vars, config_vars, is_scanning, scan_thread, current_scan, scan_history,
                   total_scans, scan_errors, scan_callback, worker_vars, odom, slam_vars,
                   env_vars>>

\* fault injection: a callback, once registered, is never replaced
set_scan_callback_once(callback) ==
    scan_callback' = IF scan_callback = "None" THEN callback ELSE scan_callback

\* the body of set_scan_callback: self.scan_callback = callback
set_scan_callback(callback) == scan_callback' = callback

\* a call of set_scan_callback(callback)
SetScanCallback(c, callback) ==
    /\ cpc[c] = "idle"
    /\ set_scan_callback(callback)
    /\ UNCHANGED <<platform_vars, config_vars, serial, is_scanning, scan_thread,
                   current_scan, scan_history, total_scans, scan_errors, worker_vars,
                   caller_vars, slam_vars, env_vars>>

\* get_status() and get_current_scan() read the fields and modify nothing
GetStatus(c) ==
    /\ cpc[c] = "idle"
    /\ UNCHANGED vars

GetCurrentScan(c) ==
    /\ cpc[c] = "idle"
    /\ UNCHANGED vars

\* sorted(obstacles)
SortedDistances(s) ==
    LET before(i) ==
            {j \in 1..Len(s) : s[j] < s[i] \/ (s[j] = s[i] /\ j < i)}
    IN  [k \in 1..Len(s) |-> s[CHOOSE i \in 1..Len(s) : Cardinality(before(i)) = k - 1]]

\* angle_diff = abs(point.angle - direction), and 360 - angle_diff when that
\* is above 180
ConeAngleDiff(angle, direction) ==
    LET angle_diff == Abs(angle - direction)
    IN  IF angle_diff > 180 * AngleUnit THEN FullCircle - angle_diff ELSE angle_diff

\* the points of the loop that are appended: valid and angle_diff <= half_cone
InCone(point, direction, cone_angle) ==
    /\ point.valid
    /\ 2 * ConeAngleDiff(point.angle, direction) <= cone_angle

\* the value get_obstacles_in_direction(direction, cone_angle) returns when
\* self.current_scan is scan (Optional)
get_obstacles_in_direction(scan, direction, cone_angle) ==
    IF scan = << >>
    THEN << >>
    ELSE LET in_cone(point) == InCone(point, direction, cone_angle)
             obstacles == SelectSeq(scan[1].points, in_cone)
         IN  SortedDistances([k \in 1..Len(obstacles) |-> obstacles[k].distance])

\* get_obstacles_in_direction as a call: a read-only query
GetObstaclesInDirection(c, direction, cone_angle) ==
    /\ cpc[c] = "idle"
    /\ get_obstacles_in_direction(current_scan, direction, cone_angle) \in Seq(Nat)
    /\ UNCHANGED vars

\* SLAMSystem.__init__: the new object is not mapping and registers its
\* _process_lidar_scan as the scan callback
NewSlamSystem(c, s) ==
    /\ cpc[c] = "idle"
    /\ s \notin built
    /\ built' = built \cup {s}
    /\ set_scan_callback(s)
    /\ UNCHANGED <<platform_vars, config_vars, serial, is_scanning, scan_thread,
                   current_scan, scan_history, total_scans, scan_errors, worker_vars,
                   caller_vars, is_mapping, total_scans_processed, grid_vars,
                   env_vars>>

\* start_mapping: nothing when already mapping; else is_mapping is set and,
\* when the lidar is not scanning, lidar.start_scanning() is called
StartMapping(c, s) ==
    /\ cpc[c] = "idle"
    /\ s \in built
    /\ IF is_mapping[s]
       THEN UNCHANGED <<is_mapping, cpc>>
       ELSE /\ is_mapping' = [is_mapping EXCEPT ![s] = TRUE]
            /\ IF is_scanning
               THEN cpc' = cpc
               ELSE /\ nthreads + Cardinality(Starting) < MaxSpawn
                    /\ cpc' = [cpc EXCEPT ![c] = "start_set"]
    /\ UNCHANGED <<platform_vars, lidar_vars, worker_vars, jthread, odom, built, total_scans_processed,
                   grid_vars, env_vars>>

\* fault injection: stop_mapping also stops the scanner that start_mapping
\* started
StopMappingStopsScan(c, s) ==
    /\ cpc[c] = "idle"
    /\ s \in built
    /\ is_mapping' = [is_mapping EXCEPT ![s] = FALSE]
    /\ is_scanning' = FALSE
    /\ UNCHANGED <<platform_vars, config_vars, serial, scan_thread, current_scan,
                   scan_history, total_scans, scan_errors, scan_callback, worker_vars,
                   caller_vars, built, total_scans_processed, grid_vars, env_vars>>

\* stop_mapping: nothing when not mapping; else is_mapping is cleared
StopMapping(c, s) ==
    /\ cpc[c] = "idle"
    /\ s \in built
    /\ is_mapping' = [is_mapping EXCEPT ![s] = FALSE]
    /\ UNCHANGED <<platform_vars, lidar_vars, worker_vars, caller_vars, built, total_scans_processed,
                   grid_vars, env_vars>>

\* the body of update_odometry when dt > 0: theta first, then x and y with
\* the new theta, then the timestamp
Integrate(pose, linear_vel, angular_vel, dt, current_time) ==
    LET theta == pose.theta + angular_vel * dt
    IN  Pose(pose.x + linear_vel * Cos(theta) * dt,
             pose.y + linear_vel * Sin(theta) * dt,
             theta, current_time)

\* deque(maxlen=1000)
PoseHistoryMaxLen == 1000

\* fault injection: a history without maxlen
PoseHistoryAppendUnbounded(deque, x) ==
    Append(deque, x)

\* self.pose_history.append(...)
PoseHistoryAppend(deque, x) ==
    IF Len(deque) >= PoseHistoryMaxLen
    THEN Append(SubSeq(deque, 2, Len(deque)), x)
    ELSE Append(deque, x)

\* fault injection: without a baseline the time of construction is used
ElapsedSinceConstruction(s, current_time) ==
    IF last_odom_time[s] = << >>
    THEN <<current_time - current_pose[s].timestamp>>
    ELSE <<current_time - last_odom_time[s][1]>>

\* dt = current_time - self._last_odom_time, computed only when
\* hasattr(self, '_last_odom_time'): Optional
Elapsed(s, current_time) ==
    IF last_odom_time[s] = << >> THEN << >> ELSE <<current_time - last_odom_time[s][1]>>

\* update_odometry(linear_vel, angular_vel), time.time() returning
\* current_time: with a baseline and dt > 0 the pose is integrated and a
\* snapshot appended; in every case the baseline becomes current_time
update_odometry(c, s, linear_vel, angular_vel, current_time) ==
    /\ cpc[c] = "idle"
    /\ s \in built
    /\ IF Elapsed(s, current_time) # << >> /\ Elapsed(s, current_time)[1] > 0
       THEN /\ current_pose' =
                   [current_pose EXCEPT
                       ![s] = Integrate(@, linear_vel, angular_vel,
                                        Elapsed(s, current_time)[1], current_time)]
            /\ pose_history' =
                   [pose_history EXCEPT ![s] = PoseHistoryAppend(@, current_pose'[s])]
       ELSE UNCHANGED <<current_pose, pose_history>>
    /\ last_odom_time' = [last_odom_time EXCEPT ![s] = <<current_time>>]
    /\ UNCHANGED <<platform_vars, lidar_vars, worker_vars, caller_vars, built, is_mapping,
                   total_scans_processed, occupancy_grid, update_vars, env_vars>>

\* update_odometry, with at most MaxPoses integrations
UpdateOdometry(c, s, linear_vel, angular_vel, current_time) ==
    /\ (Elapsed(s, current_time) # << >> /\ Elapsed(s, current_time)[1] > 0)
       => Len(pose_history[s]) < MaxPoses
    /\ update_odometry(c, s, linear_vel, angular_vel, current_time)

\* update_odometry statement by statement, as the acquisition thread can
\* observe it.  current_time = time.time() and dt are locals of the call.
OdometryBegin(c, s, linear_vel, angular_vel, current_time) ==
    /\ cpc[c] = "idle"
    /\ s \in built
    /\ IF Elapsed(s, current_time) # << >> /\ Elapsed(s, current_time)[1] > 0
       THEN /\ Len(pose_history[s]) < MaxPoses
            /\ odom' = [odom EXCEPT ![c] = <<[slam |-> s, linear_vel |-> linear_vel,
                                              angular_vel |-> angular_vel,
                                              dt |-> Elapsed(s, current_time)[1],
                                              current_time |-> current_time]>>]
            /\ cpc' = [cpc EXCEPT ![c] = "odom_theta"]
       ELSE /\ odom' = [odom EXCEPT ![c] = <<[slam |-> s, linear_vel |-> linear_vel,
                                              angular_vel |-> angular_vel,
                                              dt |-> 0,
                                              current_time |-> current_time]>>]
            /\ cpc' = [cpc EXCEPT ![c] = "odom_baseline"]
    /\ UNCHANGED <<platform_vars, lidar_vars, worker_vars, jthread, slam_vars, env_vars>>

\* self.current_pose.theta += angular_vel * dt
OdometryTheta(c) ==
    /\ cpc[c] = "odom_theta"
    /\ current_pose' =
           [current_pose EXCEPT
               ![odom[c][1].slam].theta = @ + odom[c][1].angular_vel * odom[c][1].dt]
    /\ cpc' = [cpc EXCEPT ![c] = "odom_x"]
    /\ UNCHANGED <<platform_vars, lidar_vars, worker_vars, jthread, odom, built, is_mapping,
                   total_scans_processed, occupancy_grid, pose_history, last_odom_time,
                   update_vars, env_vars>>

\* self.current_pose.x += linear_vel * np.cos(self.current_pose.theta) * dt
OdometryX(c) ==
    /\ cpc[c] = "odom_x"
    /\ current_pose' =
           [current_pose EXCEPT
               ![odom[c][1].slam].x =
                   @ + odom[c][1].linear_vel * Cos(current_pose[odom[c][1].slam].theta)
                       * odom[c][1].dt]
    /\ cpc' = [cpc EXCEPT ![c] = "odom_y"]
    /\ UNCHANGED <<platform_vars, lidar_vars, worker_vars, jthread, odom, built, is_mapping,
                   total_scans_processed, occupancy_grid, pose_history, last_odom_time,
                   update_vars, env_vars>>

\* self.current_pose.y += linear_vel * np.sin(self.current_pose.theta) * dt
OdometryY(c) ==
    /\ cpc[c] = "odom_y"
    /\ current_pose' =
           [current_pose EXCEPT
               ![odom[c][1].slam].y =
                   @ + odom[c][1].linear_vel * Sin(current_pose[odom[c][1].slam].theta)
                       * odom[c][1].dt]
    /\ cpc' = [cpc EXCEPT ![c] = "odom_timestamp"]
    /\ UNCHANGED <<platform_vars, lidar_vars, worker_vars, jthread, odom, built, is_mapping,
                   total_scans_processed, occupancy_grid, pose_history, last_odom_time,
                   update_vars, env_vars>>

\* self.current_pose.timestamp = current_time
OdometryTimestamp(c) ==
    /\ cpc[c] = "odom_timestamp"
    /\ current_pose' =
           [current_pose EXCEPT ![odom[c][1].slam].timestamp = odom[c][1].current_time]
    /\ cpc' = [cpc EXCEPT ![c] = "odom_append"]
    /\ UNCHANGED <<platform_vars, lidar_vars, worker_vars, jthread, odom, built, is_mapping,
                   total_scans_processed, occupancy_grid, pose_history, last_odom_time,
                   update_vars, env_vars>>

\* self.pose_history.append(Pose(x, y, theta, current_time))
OdometryAppend(c) ==
    /\ cpc[c] = "odom_append"
    /\ pose_history' =
           [pose_history EXCEPT
               ![odom[c][1].slam] =
                   PoseHistoryAppend(@, Pose(current_pose[odom[c][1].slam].x,
                                             current_pose[odom[c][1].slam].y,
                                             current_pose[odom[c][1].slam].theta,
                                             odom[c][1].current_time))]
    /\ cpc' = [cpc EXCEPT ![c] = "odom_baseline"]
    /\ UNCHANGED <<platform_vars, lidar_vars, worker_vars, jthread, odom, built, is_mapping,
                   total_scans_processed, occupancy_grid, current_pose, last_odom_time,
                   update_vars, env_vars>>

\* self._last_odom_time = current_time, and the call returns
OdometryEnd(c) ==
    /\ cpc[c] = "odom_baseline"
    /\ last_odom_time' =
           [last_odom_time EXCEPT ![odom[c][1].slam] = <<odom[c][1].current_time>>]
    /\ odom' = [odom EXCEPT ![c] = << >>]
    /\ cpc' = [cpc EXCEPT ![c] = "idle"]
    /\ UNCHANGED <<platform_vars, lidar_vars, worker_vars, jthread, built, is_mapping,
                   total_scans_processed, occupancy_grid, current_pose, pose_history,
                   update_vars, env_vars>>

\* slam.reset(): the class SLAMSystem defines __init__, start_mapping,
\* stop_mapping, _process_lidar_scan, _update_occupancy_grid, _update_ray,
\* _bresenham_line, update_odometry and get_map_image and inherits from
\* object, so the attribute lookup raises AttributeError in the caller and no
\* field of the object is touched
Reset(c, s) ==
    /\ cpc[c] = "idle"
    /\ s \in built
    /\ cpc' = [cpc EXCEPT ![c] = "attribute_error"]
    /\ UNCHANGED <<platform_vars, lidar_vars, worker_vars, jthread, odom, slam_vars, env_vars>>

\* the caller has handled the AttributeError
ResetRaised(c) ==
    /\ cpc[c] = "attribute_error"
    /\ cpc' = [cpc EXCEPT ![c] = "idle"]
    /\ UNCHANGED <<platform_vars, lidar_vars, worker_vars, jthread, odom, slam_vars, env_vars>>

\* fault injection: the marker is drawn into the grid itself, not into a copy
GetMapImageDrawsOnGrid(c, s, add_robot_pose) ==
    /\ cpc[c] = "idle"
    /\ s \in built
    /\ add_robot_pose
    /\ InBounds(GridX(current_pose[s].x), GridY(current_pose[s].y))
    /\ occupancy_grid' =
           [occupancy_grid EXCEPT
               ![s][GridY(current_pose[s].y)][GridX(current_pose[s].x)] = CellOne]
    /\ UNCHANGED <<platform_vars, lidar_vars, worker_vars, caller_vars, built, is_mapping,
                   total_scans_processed, pose_vars, update_vars, env_vars>>

\* get_map_image(add_robot_pose): an image is computed from a copy of the
\* grid and, for the marker, from the pose; nothing is stored
GetMapImage(c, s, add_robot_pose) ==
    /\ cpc[c] = "idle"
    /\ s \in built
    /\ UNCHANGED vars

\* _bresenham_line(x0, y0, x1, y1) is entered: points = [], dx, dy, sx, sy,
\* err = dx - dy, x, y = x0, y0
BresenhamLine(x0, y0, x1, y1) ==
    /\ bresenham # << >> => bresenham[1].returned
    /\ bresenham' = << [x0 |-> x0, y0 |-> y0, x1 |-> x1, y1 |-> y1,
                   dx |-> Abs(x1 - x0), dy |-> Abs(y1 - y0),
                   sx |-> IF x0 < x1 THEN 1 ELSE -1,
                   sy |-> IF y0 < y1 THEN 1 ELSE -1,
                   err |-> Abs(x1 - x0) - Abs(y1 - y0),
                   x |-> x0, y |-> y0, points |-> << >>, returned |-> FALSE] >>
    /\ UNCHANGED <<lidar_vars, worker_vars, caller_vars, slam_vars, env_vars, robot_vars>>

\* one iteration of while True: the cell is appended; at the end point the
\* loop breaks and points is returned, otherwise x, y, err are stepped
BresenhamLoop ==
    /\ bresenham # << >>
    /\ ~bresenham[1].returned
    /\ LET l == bresenham[1]
           points == Append(l.points, <<l.x, l.y>>)
           after == BresenhamPass(l.dx, l.dy, l.sx, l.sy, l.x, l.y, l.err)
       IN  IF l.x = l.x1 /\ l.y = l.y1
           THEN bresenham' = << [l EXCEPT !.points = points, !.returned = TRUE] >>
           ELSE bresenham' = << [l EXCEPT !.points = points, !.x = after.x, !.y = after.y,
                                     !.err = after.err] >>
    /\ UNCHANGED <<lidar_vars, worker_vars, caller_vars, slam_vars, env_vars, robot_vars>>

(***************************************************************************)
(* The Robot with its StateMachine, MotorController and SafetySystem.  A   *)
(* method is an operator from the fields before the call to the fields     *)
(* after it; sent collects the mc.set_speed commands of the step and       *)
(* returned the value a SafetySystem method returns.  The Motoron accepts  *)
(* every command (mc.set_speed does not raise).                            *)
(***************************************************************************)
\* class RobotState(Enum), by value
RobotStates ==
    {"idle", "manual_control", "autonomous", "emergency_stop", "low_power", "charging",
     "error"}

\* self.max_speed = self.config.get('max_speed', 800)
max_speed == 800

\* self.motor_enabled, every motor enabled as by default
motor_enabled == [motor_id \in 1..3 |-> TRUE]

\* self.motor_config[motor_id]['reversed'], False by default
motor_reversed == [motor_id \in 1..3 |-> FALSE]

\* the fields at the start of a step
Platform ==
    [current_state |-> current_state, previous_state |-> previous_state,
     requested_state |-> requested_state,
     emergency_stop_active |-> emergency_stop_active, current_speeds |-> current_speeds,
     sent |-> << >>,
     safe_state |-> safe_state, emergency_active |-> emergency_active,
     safety_violations |-> safety_violations, returned |-> << >>,
     last_state |-> last_state, motors_stopped |-> motors_stopped,
     emergency_stop_executed |-> emergency_stop_executed, last_command |-> last_command]

\* the fields at the end of a step
SetPlatform(p) ==
    /\ current_state' = p.current_state
    /\ previous_state' = p.previous_state
    /\ requested_state' = p.requested_state
    /\ emergency_stop_active' = p.emergency_stop_active
    /\ current_speeds' = p.current_speeds
    /\ mc_sent' = p.sent
    /\ safe_state' = p.safe_state
    /\ emergency_active' = p.emergency_active
    /\ safety_violations' = p.safety_violations
    /\ returned' = p.returned
    /\ last_state' = p.last_state
    /\ motors_stopped' = p.motors_stopped
    /\ emergency_stop_executed' = p.emergency_stop_executed
    /\ last_command' = p.last_command
    /\ UNCHANGED <<lidar_vars, worker_vars, caller_vars, slam_vars, env_vars, bresenham>>

\* StateMachine._change_state(new_state)
change_state(p, new_state) ==
    IF new_state = p.current_state THEN p
    ELSE [p EXCEPT !.previous_state = p.current_state, !.current_state = new_state]

\* fault injection: every transition is allowed
can_transition_to_any(p, new_state) == TRUE

\* StateMachine._can_transition_to(new_state)
can_transition_to(p, new_state) ==
    IF new_state = "emergency_stop" THEN TRUE
    ELSE IF p.current_state = "emergency_stop" /\ new_state # "idle" THEN FALSE
    ELSE IF p.current_state = "error" /\ new_state \notin {"idle", "emergency_stop"}
         THEN FALSE
    ELSE IF /\ p.current_state = "low_power"
            /\ new_state \notin {"charging", "idle", "emergency_stop"}
         THEN FALSE
    ELSE TRUE

\* StateMachine.set_state(state): RobotState(state) raises ValueError for a
\* string that is no value of the enumeration, which is logged
set_state(p, state) ==
    IF state \in RobotStates THEN change_state(p, state) ELSE p

\* StateMachine.request_state_change(state)
request_state_change(p, state) ==
    IF state \in RobotStates THEN [p EXCEPT !.requested_state = <<state>>] ELSE p

\* StateMachine.update(): no state callback is registered; the value
\* returned is current_state of the result
update(p) ==
    IF p.requested_state # << >>
    THEN [(IF can_transition_to(p, p.requested_state[1])
           THEN change_state(p, p.requested_state[1])
           ELSE p) EXCEPT !.requested_state = << >>]
    ELSE p

\* fault injection: a speed command is carried out whatever the emergency
\* stop flag says
set_speed_in_emergency(p, motor_id, speed) ==
    IF motor_id \notin {1, 2, 3} THEN p
    ELSE IF ~motor_enabled[motor_id] THEN p
    ELSE LET clamped == Max(-max_speed, Min(max_speed, speed))
             out == IF motor_reversed[motor_id] THEN -clamped ELSE clamped
         IN  [p EXCEPT !.current_speeds[motor_id] = out,
                       !.sent = Append(@, <<motor_id, out>>)]

\* MotorController.set_speed(motor_id, speed)
set_speed(p, motor_id, speed) ==
    IF motor_id \notin {1, 2, 3} THEN p
    ELSE IF ~motor_enabled[motor_id] THEN p
    ELSE IF p.emergency_stop_active THEN p
    ELSE LET clamped == Max(-max_speed, Min(max_speed, speed))
             out == IF motor_reversed[motor_id] THEN -clamped ELSE clamped
         IN  [p EXCEPT !.current_speeds[motor_id] = out,
                       !.sent = Append(@, <<motor_id, out>>)]

\* MotorController.set_all_speeds(speeds): speeds.items() as a sequence of
\* pairs <<motor_id, speed>>, from pair i on
RECURSIVE set_all_speeds(_, _, _)
set_all_speeds(p, speeds, i) ==
    IF i > Len(speeds) THEN p
    ELSE set_all_speeds(set_speed(p, speeds[i][1], speeds[i][2]), speeds, i + 1)

\* velocities are given in tenths
VelocityUnit == 10

\* int(speed * max_motor_speed) after the normalisation by max_abs_speed, in
\* exact arithmetic: for the velocities commanded in this model the
\* floating-point product of the source has the same integer part
MotorSpeed(speed, max_abs_speed) ==
    IF max_abs_speed > VelocityUnit
    THEN IntDiv(speed * max_speed, max_abs_speed)
    ELSE IntDiv(speed * max_speed, VelocityUnit)

\* MotorController.set_velocity(linear_speed, angular_speed): the left motor
\* is motor 3, the right motor is motor 2
set_velocity(p, linear_speed, angular_speed) ==
    LET left_speed == linear_speed - angular_speed
        right_speed == linear_speed + angular_speed
        max_abs_speed == Max(Abs(left_speed), Abs(right_speed))
        left == IF motor_enabled[3]
                THEN set_speed(p, 3, MotorSpeed(left_speed, max_abs_speed))
                ELSE p
    IN  IF motor_enabled[2]
        THEN set_speed(left, 2, MotorSpeed(right_speed, max_abs_speed))
        ELSE left

\* for motor_id in [1, 2, 3]: self.mc.set_speed(motor_id, 0);
\* self.current_speeds[motor_id] = 0, for the enabled motors from motor_id on
RECURSIVE ZeroSpeeds(_, _)
ZeroSpeeds(p, motor_id) ==
    IF motor_id > 3 THEN p
    ELSE IF motor_enabled[motor_id]
         THEN ZeroSpeeds([p EXCEPT !.current_speeds[motor_id] = 0,
                                   !.sent = Append(@, <<motor_id, 0>>)], motor_id + 1)
         ELSE ZeroSpeeds(p, motor_id + 1)

\* MotorController.stop()
stop(p) == ZeroSpeeds(p, 1)

\* MotorController.emergency_stop()
emergency_stop(p) == ZeroSpeeds([p EXCEPT !.emergency_stop_active = TRUE], 1)

\* MotorController.reset_emergency_stop(): _initialize_controller sends no
\* speed
reset_emergency_stop(p) == [p EXCEPT !.emergency_stop_active = FALSE]

\* HardwareManager.disable_all_actuators()
disable_all_actuators(p) == emergency_stop(p)

\* Robot._emergency_stop(), the emergency callback of the SafetySystem
robot_emergency_stop(p) == emergency_stop(set_state(p, "emergency_stop"))

\* any(keyword in v.lower() for keyword in ['fault', 'emergency',
\* 'overcurrent', 'excessive tilt'])
Critical(violation) == violation = "Motor fault detected"

\* any(keyword in v.lower() for keyword in ['timeout', 'communication'])
Transient(violation) == violation = "Motor command timeout"

\* SafetySystem._trigger_emergency(reason): the emergency callback is
\* Robot._emergency_stop
trigger_emergency(p) ==
    IF p.emergency_active THEN p
    ELSE robot_emergency_stop(
             disable_all_actuators(
                 emergency_stop([p EXCEPT !.emergency_active = TRUE,
                                          !.safe_state = FALSE])))

\* SafetySystem._handle_safety_violations(violations)
handle_safety_violations(p, violations) ==
    LET stored == [p EXCEPT !.safety_violations = violations]
        critical_violations == SelectSeq(violations, Critical)
    IN  IF critical_violations # << >>
        THEN IF ~p.emergency_active
             THEN trigger_emergency([stored EXCEPT !.safe_state = FALSE])
             ELSE [stored EXCEPT !.safe_state = FALSE]
        ELSE [stored EXCEPT !.safe_state = (Len(violations) = 0)]

\* SafetySystem.check_safety(): the three checks are placeholders that pass
check_safety(p) ==
    [p EXCEPT !.safety_violations = << >>, !.safe_state = TRUE, !.returned = <<TRUE>>]

NotTransient(violation) == ~Transient(violation)

\* SafetySystem.reset_emergency()
reset_emergency(p) ==
    IF ~p.emergency_active THEN p
    ELSE IF SelectSeq(p.safety_violations, NotTransient) # << >>
         THEN [p EXCEPT !.returned = <<FALSE>>]
    ELSE reset_emergency_stop([p EXCEPT !.emergency_active = FALSE,
                                        !.safety_violations = << >>,
                                        !.returned = <<TRUE>>])

\* SafetySystem.force_reset_emergency()
force_reset_emergency(p) ==
    reset_emergency_stop([p EXCEPT !.emergency_active = FALSE,
                                   !.safety_violations = << >>,
                                   !.safe_state = TRUE])

\* what NavigationSystem.update() does in one call: it returns at once when
\* not navigating, commands a velocity, stops the navigation, or stops it
\* at home and requests the idle state
NavigationOutcomes ==
    { [kind |-> "none", linear |-> 0, angular |-> 0],
      [kind |-> "velocity", linear |-> 8, angular |-> 0],
      [kind |-> "stop", linear |-> 0, angular |-> 0],
      [kind |-> "home", linear |-> 0, angular |-> 0] }

\* NavigationSystem.update()
navigation_update(p, outcome) ==
    CASE outcome.kind = "none" -> p
      [] outcome.kind = "velocity" -> set_velocity(p, outcome.linear, outcome.angular)
      [] outcome.kind = "stop" -> stop(p)
      [] outcome.kind = "home" -> request_state_change(stop(p), "idle")

\* Robot._idle_behavior(state_changed)
idle_behavior(p, state_changed) ==
    IF state_changed \/ ~p.motors_stopped
    THEN [stop(p) EXCEPT !.motors_stopped = TRUE]
    ELSE p

\* Robot._emergency_stop_behavior(state_changed)
emergency_stop_behavior(p, state_changed) ==
    IF state_changed \/ ~p.emergency_stop_executed
    THEN [disable_all_actuators(emergency_stop(p)) EXCEPT !.emergency_stop_executed = TRUE]
    ELSE p

\* Robot._execute_state_behavior(state): the manual control and low power
\* behaviours touch none of the fields, and no state has the value
\* 'exploration'
execute_state_behavior(p, state, outcome) ==
    LET state_changed == p.last_state # <<state>>
        noted == IF state_changed
                 THEN [p EXCEPT !.last_state = <<state>>,
                                !.motors_stopped = IF state # "idle" THEN FALSE ELSE @,
                                !.emergency_stop_executed =
                                    IF state # "emergency_stop" THEN FALSE ELSE @]
                 ELSE p
    IN  CASE state = "idle" -> idle_behavior(noted, state_changed)
          [] state = "autonomous" -> navigation_update(noted, outcome)
          [] state = "emergency_stop" -> emergency_stop_behavior(noted, state_changed)
          [] OTHER -> noted

\* one iteration of the while loop of Robot.run: the safety check, the
\* update of the state machine and the behaviour of the state it returns
run_iteration(p, outcome) ==
    LET checked == IF ~p.safe_state THEN set_state(p, "emergency_stop") ELSE p
        updated == update(checked)
    IN  execute_state_behavior(updated, updated.current_state, outcome)

\* Robot._handle_move_command(command)
handle_move_command(p, command) ==
    IF p.current_state = "manual_control"
    THEN set_velocity(p, command.speed, command.direction)
    ELSE p

\* Robot._handle_command(command)
handle_command(p, command) ==
    LET tracked == [p EXCEPT !.last_command = <<command.type>>]
    IN  CASE command.type = "move" -> handle_move_command(tracked, command)
          [] command.type = "state_change" ->
                 IF command.state # ""
                 THEN request_state_change(tracked, command.state)
                 ELSE tracked
          [] command.type = "emergency_stop" -> robot_emergency_stop(tracked)
          [] OTHER -> tracked

\* the calls, each a step
RequestStateChange(state) == SetPlatform(request_state_change(Platform, state))

Update == SetPlatform(update(Platform))

SetSpeed(motor_id, speed) == SetPlatform(set_speed(Platform, motor_id, speed))

SetAllSpeeds(speeds) == SetPlatform(set_all_speeds(Platform, speeds, 1))

SetVelocity(linear_speed, angular_speed) ==
    SetPlatform(set_velocity(Platform, linear_speed, angular_speed))

Stop == SetPlatform(stop(Platform))

EmergencyStop == SetPlatform(emergency_stop(Platform))

ResetEmergencyStop == SetPlatform(reset_emergency_stop(Platform))

\* SafetySystem.manual_emergency_stop()
ManualEmergencyStop == SetPlatform(trigger_emergency(Platform))

HandleSafetyViolations(violations) ==
    SetPlatform(handle_safety_violations(Platform, violations))

CheckSafety == SetPlatform(check_safety(Platform))

ResetEmergency == SetPlatform(reset_emergency(Platform))

ForceResetEmergency == SetPlatform(force_reset_emergency(Platform))

RunIteration(outcome) == SetPlatform(run_iteration(Platform, outcome))

HandleCommand(command) == SetPlatform(handle_command(Platform, command))

\* the calls into the LidarManager
LidarCaller(c) ==
    \/ StartScanningNoop(c)
    \/ StartScanningIdle(c)
    \/ StartScanningSpawn(c)
    \/ StopScanningBegin(c)
    \/ \E timed_out \in BOOLEAN : StopScanningClose(c, timed_out)
    \/ \E callback \in UserCallbacks : SetScanCallback(c, callback)
    \/ GetStatus(c)
    \/ GetCurrentScan(c)

\* the calls into the SLAMSystem objects
SlamCaller(c) ==
    \/ \E s \in Slams : NewSlamSystem(c, s)
    \/ \E s \in Slams : StartMapping(c, s)
    \/ \E s \in Slams : StopMapping(c, s)

(***************************************************************************)
(* Spec: the LidarManager under two caller threads.                        *)
(***************************************************************************)
Next ==
    \/ \E w \in Workers : Worker(w)
    \/ \E c \in Callers : LidarCaller(c)

Spec == Init /\ [][Next]_vars

(***************************************************************************)
(* SpecSlam: SLAMSystem objects on a hardware-mode LidarManager at 10 Hz,  *)
(* driven by the control loop.                                             *)
(***************************************************************************)
InitHardware == Init /\ ~simulate /\ scan_frequency = 10

\* a worker thread of a hardware-mode LidarManager with a scan frequency
HardwareWorker(w) ==
    \/ ScanLoopExit(w)
    \/ ReadLd19NotOpen(w)
    \/ \E reads \in ReadSeqs : ReadLd19Scan(w, reads)
    \/ AssemblyComplete(w)
    \/ AssemblyTimeout(w)
    \/ ReadError(w)
    \/ ReadErrorBreak(w)
    \/ PublishHistory(w)
    \/ NoCallback(w)
    \/ CallbackEnter(w)
    \/ CallbackReturn(w)
    \/ CallbackRaise(w)
    \/ CallbackWarning(w)
    \/ Sleep(w)

NextSlam ==
    \/ \E w \in Workers : HardwareWorker(w)
    \/ LidarCaller("main")
    \/ SlamCaller("main")

SpecSlam == InitHardware /\ [][NextSlam]_vars

(***************************************************************************)
(* SpecDecode: one acquisition thread of a hardware-mode LidarManager, the *)
(* passes of the read loop taken one by one over every read the port can   *)
(* deliver.                                                                *)
(***************************************************************************)
DecodeWorker(w) ==
    \/ ReadLd19Begin(w)
    \/ \E header \in HeaderReads, body \in BodyReads : ReadPacket(w, header, body)
    \/ AssemblyComplete(w)
    \/ AssemblyTimeout(w)
    \/ ReadError(w)
    \/ ReadErrorBreak(w)
    \/ PublishHistory(w)
    \/ NoCallback(w)
    \/ Sleep(w)

NextDecode ==
    \/ \E w \in Workers : DecodeWorker(w)
    \/ StartScanningIdle("main")
    \/ StartScanningSpawn("main")

SpecDecode == InitHardware /\ [][NextDecode]_vars

(***************************************************************************)
(* SpecGrid: one SLAMSystem on a hardware-mode LidarManager whose port     *)
(* delivers sweeps of four points around the robot; the control loop       *)
(* starts and stops mapping and scanning, feeds odometry and exports the   *)
(* map while the acquisition thread updates the grid point by point.       *)
(***************************************************************************)
\* linear velocities in mm/s and angular velocities per second
LinearVels == {50}

AngularVels == {0, 90 * AngleUnit}

GridWorker(w) ==
    \/ \E reads \in GridReadSeqs : ReadLd19Scan(w, reads)
    \/ AssemblyComplete(w)
    \/ PublishHistory(w)
    \/ NoCallback(w)
    \/ CallbackEnter(w)
    \/ UpdateOccupancyGridBegin(w)
    \/ UpdateOccupancyGridPoint(w)
    \/ CallbackReturn(w)
    \/ Sleep(w)

GridCaller(c, s) ==
    \/ NewSlamSystem(c, s)
    \/ StartMapping(c, s)
    \/ StopMapping(c, s)
    \/ \E linear_vel \in LinearVels, angular_vel \in AngularVels, current_time \in 0..MaxTime :
           UpdateOdometry(c, s, linear_vel, angular_vel, current_time)
    \/ \E add_robot_pose \in BOOLEAN : GetMapImage(c, s, add_robot_pose)
    \/ StartScanningIdle(c)
    \/ StartScanningSpawn(c)

NextGrid ==
    \/ \E w \in Workers : GridWorker(w)
    \/ GridCaller("main", "slam1")

SpecGrid == InitHardware /\ [][NextGrid]_vars

(***************************************************************************)
(* SpecRay: _update_ray applied again and again to the grid of one         *)
(* SLAMSystem, from the middle of the map to points ahead and behind,      *)
(* inside and outside the map.                                             *)
(***************************************************************************)
\* end points <<end_x, end_y>> of rays that start at <<0, 0>>
RayEnds == { <<60, 0>>, <<100, 0>>, <<130, 0>>, <<-100, 0>>, <<-130, 0>> }

\* self._update_ray(0.0, 0.0, end_x, end_y)
UpdateRay(s, end) ==
    /\ s \in built
    /\ occupancy_grid' = [occupancy_grid EXCEPT ![s] = update_ray(@, 0, 0, end[1], end[2])]
    /\ UNCHANGED <<platform_vars, lidar_vars, worker_vars, caller_vars, built, is_mapping,
                   total_scans_processed, pose_vars, update_vars, env_vars>>

NextRay ==
    \/ NewSlamSystem("main", "slam1")
    \/ \E end \in RayEnds : UpdateRay("slam1", end)

SpecRay == InitHardware /\ [][NextRay]_vars

(***************************************************************************)
(* SpecOdom: the pose tracking of one SLAMSystem under update_odometry     *)
(* calls with velocities of either sign and a clock that may stand still   *)
(* or step back.                                                           *)
(***************************************************************************)
OdomLinearVels == {-50, 0, 50}

OdomAngularVels == {-90 * AngleUnit, 0, 90 * AngleUnit}

NextOdom ==
    \/ NewSlamSystem("main", "slam1")
    \/ \E linear_vel \in OdomLinearVels, angular_vel \in OdomAngularVels,
          current_time \in 0..MaxTime :
           UpdateOdometry("main", "slam1", linear_vel, angular_vel, current_time)

SpecOdom == InitHardware /\ [][NextOdom]_vars

(***************************************************************************)
(* SpecOdomLong: one SLAMSystem driven forward by more update_odometry     *)
(* calls than the pose history holds, under a clock that alternates        *)
(* between two readings (every other call finds a clock that stepped back  *)
(* or stood still).                                                        *)
(***************************************************************************)
LongLinearVels == {50}

LongTimes == {0, 1}

NextOdomLong ==
    \/ NewSlamSystem("main", "slam1")
    \/ \E linear_vel \in LongLinearVels, current_time \in LongTimes :
           /\ "slam1" \in built
           /\ current_pose["slam1"].x < linear_vel * MaxIntegrations
           /\ update_odometry("main", "slam1", linear_vel, 0, current_time)

SpecOdomLong == InitHardware /\ [][NextOdomLong]_vars

(***************************************************************************)
(* SpecReset: the pose tracking of one SLAMSystem under update_odometry    *)
(* calls and calls of reset().                                             *)
(***************************************************************************)
NextReset ==
    \/ NewSlamSystem("main", "slam1")
    \/ \E linear_vel \in OdomLinearVels, angular_vel \in OdomAngularVels,
          current_time \in 0..MaxTime :
           UpdateOdometry("main", "slam1", linear_vel, angular_vel, current_time)
    \/ Reset("main", "slam1")
    \/ ResetRaised("main")

SpecReset == InitHardware /\ [][NextReset]_vars

(***************************************************************************)
(* SpecCone: a hardware-mode LidarManager that publishes sweeps of twelve  *)
(* points while the control loop asks for the obstacles in cones around    *)
(* directions inside and outside [0, 360).                                 *)
(***************************************************************************)
\* directions and cone angles, in degrees
ConeDirections == {-120, -30, 0, 45, 350, 360, 400}

ConeAngles == {30, 90}

ConeWorker(w) ==
    \/ ReadLd19Begin(w)
    \/ \E body \in ConeBodyReads : ReadPacket(w, <<84, 44>>, body)
    \/ AssemblyComplete(w)
    \/ AssemblyTimeout(w)
    \/ PublishHistory(w)
    \/ NoCallback(w)
    \/ Sleep(w)

NextCone ==
    \/ \E w \in Workers : ConeWorker(w)
    \/ StartScanningIdle("main")
    \/ StartScanningSpawn("main")
    \/ \E direction \in ConeDirections, cone_angle \in ConeAngles :
           GetObstaclesInDirection("main", direction * AngleUnit, cone_angle * AngleUnit)

SpecCone == InitHardware /\ [][NextCone]_vars

(***************************************************************************)
(* SpecRace: one mapping SLAMSystem whose grid update, on the acquisition  *)
(* thread, reads the pose field by field while update_odometry, on the     *)
(* control thread, writes it field by field; no lock orders the two.       *)
(***************************************************************************)
RaceLinearVels == {50}

RaceAngularVels == {90 * AngleUnit}

RaceWorker(w) ==
    \/ \E reads \in GridReadSeqs : ReadLd19Scan(w, reads)
    \/ AssemblyComplete(w)
    \/ PublishHistory(w)
    \/ NoCallback(w)
    \/ CallbackEnter(w)
    \/ ReadRobotX(w)
    \/ ReadRobotY(w)
    \/ ReadRobotTheta(w)
    \/ (pc[w] = "in_slam" => next_point[w] > 0) /\ CallbackReturn(w)
    \/ Sleep(w)

RaceCaller(c, s) ==
    \/ NewSlamSystem(c, s)
    \/ StartMapping(c, s)
    \/ StartScanningIdle(c)
    \/ StartScanningSpawn(c)
    \/ \E linear_vel \in RaceLinearVels, angular_vel \in RaceAngularVels,
          current_time \in 0..MaxTime :
           OdometryBegin(c, s, linear_vel, angular_vel, current_time)
    \/ OdometryTheta(c)
    \/ OdometryX(c)
    \/ OdometryY(c)
    \/ OdometryTimestamp(c)
    \/ OdometryAppend(c)
    \/ OdometryEnd(c)

NextRace ==
    \/ \E w \in Workers : RaceWorker(w)
    \/ RaceCaller("main", "slam1")

SpecRace == InitHardware /\ [][NextRace]_vars

(***************************************************************************)
(* SpecStream: one acquisition thread reading the bytes of the port, on    *)
(* which frames arrive behind runs of other bytes of every length.         *)
(***************************************************************************)
\* what precedes the frame: nothing, one to three bytes, a byte equal to the
\* first header byte, a frame with a wrong CRC byte, a good frame
StreamPrefixes == { << >>, <<0>>, <<0, 0>>, <<0, 0, 0>>, <<84>>, BadCrc(FrameA), FrameA }

Streams == { prefix \o FrameB : prefix \in StreamPrefixes }

StreamWorker(w) ==
    \/ ReadLd19Begin(w)
    \/ ReadStream(w)
    \/ AssemblyComplete(w)
    \/ AssemblyTimeout(w)
    \/ PublishHistory(w)
    \/ NoCallback(w)
    \/ Sleep(w)

NextStream ==
    \/ \E w \in Workers : StreamWorker(w)
    \/ \E stream \in Streams : Receive(stream)
    \/ StartScanningIdle("main")
    \/ StartScanningSpawn("main")

SpecStream == InitHardware /\ [][NextStream]_vars

(***************************************************************************)
(* SpecCrc: one acquisition thread reading frames that arrive as sent or   *)
(* with one bit of the 45 bytes behind the header inverted.                *)
(***************************************************************************)
CrcWorker(w) ==
    \/ ReadLd19Begin(w)
    \/ ReadStream(w)
    \/ AssemblyTimeout(w)
    \/ PublishHistory(w)
    \/ NoCallback(w)
    \/ Sleep(w)

\* a damaged frame arrives as the first or the second of an assembly
NextCrc ==
    \/ \E w \in Workers : CrcWorker(w)
    \/ Receive(FrameA)
    \/ \E stream \in FlippedFrames :
          (\A w \in Workers : serial_reads[w] <= 1) /\ Receive(stream)
    \/ StartScanningIdle("main")
    \/ StartScanningSpawn("main")

SpecCrc == InitHardware /\ [][NextCrc]_vars

(***************************************************************************)
(* SpecAngles: one acquisition thread whose assemblies start with a frame  *)
(* of any start and end angle among AngleEnds: increasing, decreasing,     *)
(* equal, and beyond 360 degrees as the 16-bit fields allow.               *)
(***************************************************************************)
\* wire angles in centidegrees
AngleEnds == {0, 3300, 35999, 36000, 65535}

AngleFrames == { WrapFrame(start_cdeg, end_cdeg) : start_cdeg, end_cdeg \in AngleEnds }

NextAngles ==
    \/ \E w \in Workers : CrcWorker(w)
    \/ \E frame \in AngleFrames :
          (\A w \in Workers : serial_reads[w] = 0) /\ Receive(frame)
    \/ StartScanningIdle("main")
    \/ StartScanningSpawn("main")

SpecAngles == InitHardware /\ [][NextAngles]_vars

(***************************************************************************)
(* SpecWrap: one acquisition thread assembling sweeps from streams of      *)
(* CRC-valid frames that approach, pass and leave 0 degrees.               *)
(***************************************************************************)
WrapWorker(w) ==
    \/ ReadLd19Begin(w)
    \/ ReadStream(w)
    \/ AssemblyComplete(w)
    \/ AssemblyTimeout(w)
    \/ PublishHistory(w)
    \/ NoCallback(w)
    \/ Sleep(w)

NextWrap ==
    \/ \E w \in Workers : WrapWorker(w)
    \/ \E stream \in WrapStreams : Receive(stream)
    \/ StartScanningIdle("main")
    \/ StartScanningSpawn("main")

SpecWrap == InitHardware /\ [][NextWrap]_vars

(***************************************************************************)
(* SpecDedup: one acquisition thread assembling sweeps from frames whose   *)
(* points share whole degrees, within a frame and between frames.          *)
(***************************************************************************)
NextDedup ==
    \/ \E w \in Workers : StreamWorker(w)
    \/ \E stream \in DedupStreams : Receive(stream)
    \/ StartScanningIdle("main")
    \/ StartScanningSpawn("main")

SpecDedup == InitHardware /\ [][NextDedup]_vars

(***************************************************************************)
(* SpecLine: _bresenham_line called again and again, from two start cells  *)
(* to every cell at most MaxCell away from the origin in each coordinate.  *)
(***************************************************************************)
LineStarts == { <<0, 0>>, <<2, -1>> }

LineEnds == (-MaxCell..MaxCell) \X (-MaxCell..MaxCell)

NextLine ==
    \/ \E start \in LineStarts, end \in LineEnds :
          BresenhamLine(start[1], start[2], end[1], end[2])
    \/ BresenhamLoop

SpecLine == Init /\ [][NextLine]_vars

(***************************************************************************)
(* SpecStates: a StateMachine driven by request_state_change, with every   *)
(* state name and a string that names no state, and by update.             *)
(***************************************************************************)
\* a LidarManager in hardware mode beside the Robot, which is as constructed
InitRobot == Init /\ ~simulate /\ scan_frequency = 10

StateNames == RobotStates \cup {"exploration"}

NextStates ==
    \/ \E state \in StateNames : RequestStateChange(state)
    \/ Update

SpecStates == InitRobot /\ [][NextStates]_vars

(***************************************************************************)
(* SpecRobot: the Robot in its main loop, with commands arriving from the  *)
(* communication system, the SafetySystem triggered, fed with violations   *)
(* and reset, and the MotorController called directly.                     *)
(***************************************************************************)
\* commands as the communication system hands them over: speed and
\* direction of a move in tenths, the state of a state change
Commands ==
    { [type |-> "move", speed |-> 4000, direction |-> 0, state |-> ""],
      [type |-> "move", speed |-> 0, direction |-> 10, state |-> ""],
      [type |-> "emergency_stop", speed |-> 0, direction |-> 0, state |-> ""],
      [type |-> "stop", speed |-> 0, direction |-> 0, state |-> ""],
      [type |-> "state_change", speed |-> 0, direction |-> 0, state |-> ""] }
    \cup { [type |-> "state_change", speed |-> 0, direction |-> 0, state |-> state] :
              state \in {"idle", "manual_control", "autonomous", "exploration"} }

\* lists of violations as the checks of the SafetySystem report them
ViolationLists ==
    { << >>, <<"Motor fault detected">>, <<"Motor command timeout">>,
      <<"Low battery: 10.5V">> }

NextRobot ==
    \/ \E outcome \in NavigationOutcomes : RunIteration(outcome)
    \/ \E command \in Commands : HandleCommand(command)
    \/ ManualEmergencyStop
    \/ \E violations \in ViolationLists : HandleSafetyViolations(violations)
    \/ CheckSafety
    \/ ResetEmergency
    \/ ForceResetEmergency

SpecRobot == InitRobot /\ [][NextRobot]_vars

(***************************************************************************)
(* SpecMotors: the Robot of SpecRobot, with the MotorController also       *)
(* called directly.                                                        *)
(***************************************************************************)
NextMotors ==
    \/ NextRobot
    \/ \E motor_id \in {0, 2}, speed \in {-900} : SetSpeed(motor_id, speed)
    \/ \E speeds \in { <<<<2, 200>>, <<3, -200>>>> } : SetAllSpeeds(speeds)
    \/ \E linear_speed \in {6}, angular_speed \in {0} :
          SetVelocity(linear_speed, angular_speed)
    \/ Stop
    \/ EmergencyStop
    \/ ResetEmergencyStop

SpecMotors == InitRobot /\ [][NextMotors]_vars

(***************************************************************************)
(* SpecMode: a LidarManager built from every combination of the simulate   *)
(* argument, the enabled option and a port that opens or fails, driven by  *)
(* the control loop through scanning sessions and shutdown.                *)
(***************************************************************************)
InitMode == InitLidar /\ InitRest

NextMode ==
    \/ \E w \in Workers : Worker(w)
    \/ LidarCaller("main")
    \/ ShutdownBegin("main")
    \/ \E timed_out \in BOOLEAN : ShutdownEnd("main", timed_out)

SpecMode == InitMode /\ [][NextMode]_vars

(***************************************************************************)
(* SpecPoints: one acquisition thread in either mode; in hardware mode the *)
(* port delivers frames whose distances lie at the limits of the range.    *)
(***************************************************************************)
InitPoints == InitLidar /\ InitRest /\ scan_frequency = 10

PointsWorker(w) ==
    \/ SimulateScan(w)
    \/ ReadLd19Begin(w)
    \/ \E body \in EdgeBodyReads : ReadPacket(w, <<84, 44>>, body)
    \/ AssemblyComplete(w)
    \/ AssemblyTimeout(w)
    \/ PublishHistory(w)
    \/ NoCallback(w)
    \/ Sleep(w)

NextPoints ==
    \/ \E w \in Workers : PointsWorker(w)
    \/ StartScanningIdle("main")
    \/ StartScanningSpawn("main")

SpecPoints == InitPoints /\ [][NextPoints]_vars

(***************************************************************************)
(* SpecStop: a LidarManager in either mode, with or without a scan         *)
(* frequency, whose port delivers garbage, CRC-failing frames and good     *)
(* frames without end, started and stopped by the control loop.  The       *)
(* acquisition thread is scheduled, its reads and callbacks return, and    *)
(* the time limit of an assembly expires.                                  *)
(***************************************************************************)
InitStop == InitMode

StopStreams == { <<0, 0, 0>>, BadCrc(FrameA), FrameA \o FrameB }

\* an iteration is begun only when the counters that bound the model leave
\* room for it to end
Room ==
    /\ clock + Cardinality({v \in Workers : pc[v] \in {"assemble", "read_error"}}) < MaxScans
    /\ scan_frequency = 0
       => scan_errors + Cardinality({v \in Workers : pc[v] \notin {"unborn", "loop", "done"}})
              < MaxScanErrors

StopWorker(w) ==
    \/ ScanLoopExit(w)
    \/ Room /\ SimulateScan(w)
    \/ Room /\ ReadLd19NotOpen(w)
    \/ Room /\ ReadLd19Begin(w)
    \/ ReadStream(w)
    \/ ReadStreamRejected(w)
    \/ AssemblyComplete(w)
    \/ AssemblyTimeout(w)
    \/ ReadError(w)
    \/ ReadErrorBreak(w)
    \/ Deliver(w)

NextStop ==
    \/ \E w \in Workers : StopWorker(w)
    \/ \E stream \in StopStreams : Receive(stream)
    \/ StartScanningNoop("main")
    \/ StartScanningIdle("main")
    \/ StartScanningSpawn("main")
    \/ StopScanningBegin("main")
    \/ \E timed_out \in BOOLEAN : StopScanningClose("main", timed_out)
    \/ \E callback \in UserCallbacks : SetScanCallback("main", callback)

\* the thread is scheduled and what it waits for returns; the time limit of
\* the while loop of _read_ld19_scan expires however many reads succeed
FairStop ==
    \A w \in Workers : WF_vars(StopWorker(w)) /\ WF_vars(AssemblyTimeout(w))

SpecStop == InitStop /\ [][NextStop]_vars /\ FairStop

(***************************************************************************)
(* Properties                                                              *)
(***************************************************************************)
\* C1: in hardware mode the loop publishes a scan only when the assembly
\* ended by wraparound: a worker that has set current_scan and is about to
\* append to the history holds scan_complete.
C1_PublishOnlyCompleteSweep ==
    \A w \in Workers : (~simulate /\ pc[w] = "publish") => scan_complete[w]

\* bytes 0x54 0x2C, 47 bytes in all, CRC8 of the first 46 equal to byte 47
WellFormedFrame(frame) ==
    /\ Len(frame) = 47
    /\ frame[1] = 84
    /\ frame[2] = 44
    /\ crc8(SubSeq(frame, 1, 46)) = frame[47]

\* C2: a pass of the read loop adds the 12 points of the frame, counts the
\* packet and records its end angle exactly when the frame is well formed; a
\* rejected frame leaves the point buffer, the packet count, the previous
\* end angle and the completion flag as they were.
C2_FrameAcceptedIffWellFormed ==
    [][\A w \in Workers, header \in HeaderReads, body \in BodyReads :
          ReadPacket(w, header, body) =>
              IF WellFormedFrame(header \o body)
              THEN /\ Len(scan_points'[w]) = Len(scan_points[w]) + 12
                   /\ packets_collected'[w] = packets_collected[w] + 1
                   /\ last_end_angle'[w] = <<EndAngle(header \o body)>>
              ELSE /\ scan_points'[w] = scan_points[w]
                   /\ packets_collected'[w] = packets_collected[w]
                   /\ last_end_angle'[w] = last_end_angle[w]
                   /\ scan_complete'[w] = scan_complete[w]]_vars

\* C2 witness: an assembly in which a frame was accepted and a frame rejected
C2_Witness ==
    \E w \in Workers :
        /\ pc[w] = "assemble"
        /\ packets_collected[w] >= 1
        /\ serial_reads[w] > packets_collected[w]

\* C3: is_scanning changes only inside start_scanning and stop_scanning; a
\* start goes past its check only when idle, then sets the flag and spawns
\* exactly one worker; a stop clears the flag and returns with the serial
\* handle not open; stop_mapping, set_scan_callback, the queries and the
\* worker leave the flag alone.
C3_ScanningFlagOnlyStartStop ==
    [][/\ is_scanning' # is_scanning =>
              \E c \in Callers : StartScanningSpawn(c) \/ StopScanningBegin(c)
       /\ \A c \in Callers :
              /\ (cpc[c] = "idle" /\ cpc'[c] = "start_set") => ~is_scanning
              /\ StartScanningSpawn(c) =>
                     /\ is_scanning'
                     /\ Cardinality({w \in Workers : pc[w] = "unborn" /\ pc'[w] = "loop"}) = 1
                     /\ \A w \in Workers : pc[w] # "unborn" => pc'[w] = pc[w]
              /\ StopScanningBegin(c) => ~is_scanning'
              /\ (cpc[c] \in {"idle", "stop_join"} /\ cpc'[c] = "idle" /\ serial' # serial)
                     => serial' = "closed"
              /\ ((StopScanningBegin(c) \/ cpc[c] = "stop_join") /\ cpc'[c] = "idle")
                     => serial' # "open"]_vars

\* C3 witness: scanning was started, then stopped, and a SLAMSystem exists
\* that is not mapping
C3_Witness ==
    /\ nthreads >= 1
    /\ ~is_scanning
    /\ serial = "closed"
    /\ \A c \in Callers : cpc[c] = "idle"
    /\ \E s \in built : ~is_mapping[s]

\* C4: at most one worker thread is alive while the scanner is scanning
C4_AtMostOneWorker ==
    \A v, w \in Workers : (is_scanning /\ Alive(v) /\ Alive(w)) => v = w

\* the steps that handle an exception raised inside a loop iteration
ErrorStep(w) ==
    \/ ReadError(w)
    \/ ReadErrorBreak(w)
    \/ CallbackRaise(w)
    \/ CallbackWarning(w)
    \/ ScanLoopError(w)

\* C5: handling an exception of a loop iteration neither changes
\* is_scanning nor ends the worker thread.
C5_ErrorKeepsLoopRunning ==
    [][\A w \in Workers :
          ErrorStep(w) => (is_scanning' = is_scanning /\ pc'[w] \notin {"unborn", "done"})]_vars

\* C5 witness: an iteration has failed, the flag is up and the worker is
\* back at the head of its loop
C5_Witness ==
    /\ scan_errors >= 1
    /\ is_scanning
    /\ \E w \in Workers : pc[w] = "loop"

\* C6: the step that leaves the handler of a serial read error has
\* incremented scan_errors by one.
C6_ReadErrorCounted ==
    [][\A w \in Workers :
          (pc[w] = "read_error" /\ pc'[w] # "read_error") => scan_errors' = scan_errors + 1]_vars

\* C7: a raising callback is caught at the call site: the scan passed to it
\* stays in scan_history, the published fields and scan_errors do
\* not change, and the worker goes on to the sleep that ends the iteration.
C7_CallbackRaiseContained ==
    [][\A w \in Workers :
          (CallbackRaise(w) \/ CallbackWarning(w)) =>
              /\ current_scan' = current_scan
              /\ scan_history' = scan_history
              /\ total_scans' = total_scans
              /\ scan_errors' = scan_errors
              /\ is_scanning' = is_scanning
              /\ \E i \in DOMAIN scan_history : <<scan_history[i]>> = processed_scan[w]
              /\ pc'[w] \in {"callback_error", "sleep"}]_vars

\* C7 witness: a callback has raised on a published scan
C7_Witness ==
    \E w \in Workers :
        /\ pc[w] = "callback_error"
        /\ processed_scan[w] = current_scan
        /\ total_scans >= 1

\* C8: while a callback runs, get_current_scan() returns the scan that was
\* passed to it.
C8_CallbackSeesItsScan ==
    \A w \in Workers :
        pc[w] \in {"in_callback", "in_slam"} => current_scan = processed_scan[w]

\* C9: scan_history holds at most HistoryMaxLen scans with non-decreasing
\* timestamps, as many as were published, and between publications
\* current_scan is its newest element.
C9_HistoryInPublicationOrder ==
    /\ Len(scan_history) <= HistoryMaxLen
    /\ \A i \in 1..(Len(scan_history) - 1) :
           scan_history[i].timestamp <= scan_history[i + 1].timestamp
    /\ (\A w \in Workers : pc[w] # "publish") =>
           /\ Len(scan_history) = IF total_scans < HistoryMaxLen THEN total_scans
                                  ELSE HistoryMaxLen
           /\ scan_history # << >> => current_scan = <<scan_history[Len(scan_history)]>>

\* C10: an invocation calls the callback registered at that moment, the one
\* the latest set_scan_callback stored; constructing a SLAMSystem registers
\* it in place of whatever was registered; and no scan is passed to a
\* callback twice.
C10_LatestCallbackOnly ==
    [][/\ \A w \in Workers :
              (pc[w] = "callback" /\ pc'[w] \in {"in_callback", "in_slam"}) =>
                  /\ callee'[w] = scan_callback
                  /\ calls' = Append(calls, [callback |-> scan_callback,
                                             scan |-> processed_scan[w][1].timestamp])
       /\ \A s \in Slams : (s \notin built /\ s \in built') => scan_callback' = s
       /\ \A c \in Callers, callback \in UserCallbacks :
              SetScanCallback(c, callback) => scan_callback' = callback
       /\ \A i, j \in DOMAIN calls' : calls'[i].scan = calls'[j].scan => i = j]_vars

\* C10 witness: the first scan went to the first SLAMSystem, the second
\* scan to the SLAMSystem constructed after it
C10_Witness ==
    /\ Len(calls) = 2
    /\ calls[1].callback = "slam1"
    /\ calls[2].callback = "slam2"

\* C11: in every state after construction, through scanning sessions, read
\* errors and shutdown, simulate is true exactly when simulate=True was
\* passed, or the configuration has enabled false, or opening the port raised.
C11_ModeFixedAtConstruction ==
    simulate <=> (lidar_init.simulate \/ ~enabled \/ lidar_init.open_raised)

\* the port failed to open, the object exists all the same, has published
\* synthetic scans, and has been shut down
C11_Witness ==
    /\ lidar_init.open_raised
    /\ simulate
    /\ total_scans > 0
    /\ nthreads > 0
    /\ \A w \in Workers : ~Alive(w)
    /\ ~is_scanning
    /\ serial = "none"

\* the points a LidarManager holds: those being accumulated by a worker and
\* those of every scan in processed_scan, current_scan and scan_history
HeldPoints ==
    LET scans == {current_scan[i] : i \in 1..Len(current_scan)}
                 \cup {scan_history[i] : i \in 1..Len(scan_history)}
                 \cup UNION {{processed_scan[w][i] : i \in 1..Len(processed_scan[w])} :
                                w \in Workers}
    IN  UNION {{scan.points[i] : i \in 1..Len(scan.points)} : scan \in scans}
        \cup UNION {{scan_points[w][i] : i \in 1..Len(scan_points[w])} : w \in Workers}

\* C12: every point, simulated or decoded, is valid exactly when its distance
\* is strictly between 50 mm (0.05 m) and 12000 mm (12.0 m): 50 and 12000 are
\* invalid, 60 and 11900 valid.
C12_ValidIffStrictlyInRange ==
    \A p \in HeldPoints :
        /\ p.valid <=> (50 < p.distance /\ p.distance < 12000)
        /\ p.distance \in {50, 12000} => ~p.valid
        /\ p.distance \in {60, 11900} => p.valid

\* a published decoded scan with points at both limits and just inside them
C12_Witness ==
    /\ ~simulate
    /\ current_scan # << >>
    /\ \A d \in {50, 60, 11900, 12000} :
           \E i \in 1..Len(current_scan[1].points) : current_scan[1].points[i].distance = d

\* C13: a scan delivered to the callback of a SLAMSystem whose is_mapping is
\* false does not enter the grid update, and the call it makes changes no
\* grid cell and leaves total_scans_processed as it is.
C13_NotMappingScanIgnored ==
    [][\A w \in Workers :
          /\ (/\ pc[w] = "callback"
              /\ pc'[w] \in {"in_slam", "in_callback"}
              /\ scan_callback \in Slams
              /\ ~is_mapping[scan_callback])
             => pc'[w] = "in_callback"
          /\ (pc[w] = "in_callback" /\ callee[w] \in Slams /\ pc'[w] # pc[w])
             => /\ occupancy_grid' = occupancy_grid
                /\ total_scans_processed' = total_scans_processed]_vars

\* mapping was started and stopped again, and a scan delivered since is in
\* the callback
C13_Witness ==
    \E w \in Workers :
        /\ pc[w] = "in_callback"
        /\ callee[w] = "slam1"
        /\ ~is_mapping["slam1"]
        /\ total_scans_processed["slam1"] > 0
        /\ occupancy_grid["slam1"] # NewGrid

\* C14: after every return of start_mapping() is_mapping is true and the
\* LiDAR loop is scanning.  A call made with no other call in progress and
\* is_mapping already set returns at once and changes nothing, so the claim
\* requires the LiDAR to be scanning in every such state; a call that sets
\* is_mapping returns through start_scanning with the flag up.
C14_StartMappingEnsuresScanning ==
    \A s \in Slams :
        (s \in built /\ is_mapping[s] /\ \A c \in Callers : cpc[c] = "idle")
        => is_scanning

\* C15: once stop_mapping() has returned and until start_mapping() is called
\* again, no grid cell changes: a step that starts and ends with is_mapping
\* false leaves the grid as it is, also when the acquisition thread was in
\* the middle of a grid update when stop_mapping() was called.  (Before the
\* first start_mapping() no thread is inside a grid update.)
C15_NoGridChangeAfterStopMapping ==
    [][\A s \in Slams :
          (~is_mapping[s] /\ ~is_mapping'[s]) => occupancy_grid'[s] = occupancy_grid[s]]_vars

\* k occupied marks, and k free marks, in a row on the value v
RECURSIVE OccupiedMarks(_, _)
OccupiedMarks(v, k) == IF k = 0 THEN v ELSE MarkOccupied(OccupiedMarks(v, k - 1))

RECURSIVE FreeMarks(_, _)
FreeMarks(v, k) == IF k = 0 THEN v ELSE MarkFree(FreeMarks(v, k - 1))

\* C16: every cell of a new grid is 0.5 and every cell stays within [0, 1];
\* k occupied marks on a value v give min(1, v + 0.1 k) and k free marks
\* max(0, v - 0.05 k), so a cell at 1.0 is unchanged by an occupied mark and
\* a cell at 0.0 by a free mark (values in units of 0.05).
C16_CellsClamped ==
    /\ \A s \in Slams, gy \in 0..(map_height - 1), gx \in 0..(map_width - 1) :
           /\ occupancy_grid[s][gy][gx] \in 0..CellOne
           /\ s \notin built => occupancy_grid[s][gy][gx] = CellUnknown
    /\ \A v \in 0..CellOne, k \in 0..MaxMarks :
           /\ OccupiedMarks(v, k) = Min(CellOne, v + OccupiedStep * k)
           /\ FreeMarks(v, k) = Max(0, v - FreeStep * k)
    /\ MarkOccupied(CellOne) = CellOne
    /\ MarkFree(0) = 0

\* rays have driven the cell two ahead of the robot to 1.0 and the robot's
\* own cell to 0.0
C16_Witness ==
    /\ occupancy_grid["slam1"][2][4] = CellOne
    /\ occupancy_grid["slam1"][2][2] = 0

\* the cell that holds the world coordinate <<x, y>>, as <<gx, gy>>
CellOf(x, y) == <<(x - origin_x) \div map_resolution, (y - origin_y) \div map_resolution>>

\* the world coordinate of a point seen from the pose <<x, y, theta>>
WorldPoint(rob, point) ==
    <<rob[1] + point.distance * Cos(point.angle + rob[3]),
      rob[2] + point.distance * Sin(point.angle + rob[3])>>

\* a point the mapper uses: valid and within max_range
Used(point) == point.valid /\ point.distance <= max_range

\* the grid after the ray of one point, as C17 describes it: on the line
\* from the robot's cell to the point's cell the last cell gains 0.1, the
\* cells before it lose 0.05, cells outside the grid do not exist, every
\* other cell and every cell under an unused point stays
RayEffect(grid, rob, point) ==
    IF ~Used(point) THEN grid
    ELSE LET from == CellOf(rob[1], rob[2])
             to == CellOf(WorldPoint(rob, point)[1], WorldPoint(rob, point)[2])
             line == bresenham_line(from[1], from[2], to[1], to[2])
         IN  [gy \in 0..(map_height - 1) |->
                [gx \in 0..(map_width - 1) |->
                    IF line[Len(line)] = <<gx, gy>> THEN Min(CellOne, grid[gy][gx] + OccupiedStep)
                    ELSE IF \E i \in 1..(Len(line) - 1) : line[i] = <<gx, gy>>
                    THEN Max(0, grid[gy][gx] - FreeStep)
                    ELSE grid[gy][gx]]]

\* a step in which worker w runs one pass of the loop of the grid update
PointStep(w) ==
    /\ pc[w] = "in_slam"
    /\ robot[w] # << >>
    /\ pc'[w] = "in_slam"
    /\ next_point'[w] = next_point[w] + 1

\* C17: when a scan is processed while mapping, each point changes the grid
\* by its ray and by nothing else: for a valid point within max_range the
\* in-bounds cells of the line from the robot's cell to the point's cell lose
\* 0.05 (not below 0), except the last, which gains 0.1 (not above 1); any
\* other point changes no cell.
C17_RayMarksItsCells ==
    [][\A w \in Workers :
          PointStep(w) =>
              occupancy_grid'[callee[w]] =
                  RayEffect(occupancy_grid[callee[w]], robot[w][1],
                            processed_scan[w][1].points[next_point[w]])]_vars

\* the grid area: origin <= coordinate < origin + size * resolution
InsideMap(x, y) ==
    /\ origin_x <= x /\ x < origin_x + map_width * map_resolution
    /\ origin_y <= y /\ y < origin_y + map_height * map_resolution

\* C18: a used scan point whose world coordinate lies outside the grid area
\* causes no cell to be marked occupied: in the pass of the loop that takes
\* it no cell value rises.
C18_OutsidePointMarksNoCellOccupied ==
    [][\A w \in Workers :
          LET point == processed_scan[w][1].points[next_point[w]]
              world == WorldPoint(robot[w][1], point)
          IN  (PointStep(w) /\ Used(point) /\ ~InsideMap(world[1], world[2]))
              => \A gy \in 0..(map_height - 1), gx \in 0..(map_width - 1) :
                     occupancy_grid'[callee[w]][gy][gx] <= occupancy_grid[callee[w]][gy][gx]]_vars

\* a step of the calling thread: no acquisition thread moves
CallerStep == UNCHANGED <<worker_vars, update_vars>>

\* C19 as claimed: the grid changes only while a scan is being processed by
\* _process_lidar_scan, and start_mapping, stop_mapping, update_odometry and
\* get_map_image leave every grid cell and the current pose unchanged.
C19_CallsLeaveGridAndPose ==
    [][/\ occupancy_grid' # occupancy_grid => \E w \in Workers : pc[w] = "in_slam"
       /\ CallerStep => (occupancy_grid' = occupancy_grid /\ current_pose' = current_pose)]_vars

\* C19, amended: the grid changes only while a scan is being processed by
\* _process_lidar_scan; start_mapping, stop_mapping and get_map_image leave
\* every grid cell and the current pose unchanged, and update_odometry
\* leaves every grid cell unchanged (a step of the calling thread that
\* changes the pose is an update_odometry, which moves the time baseline
\* and leaves is_mapping alone).
C19_CallsLeaveGrid ==
    [][/\ occupancy_grid' # occupancy_grid => \E w \in Workers : pc[w] = "in_slam"
       /\ CallerStep => occupancy_grid' = occupancy_grid
       /\ (CallerStep /\ current_pose' # current_pose)
          => (last_odom_time' # last_odom_time /\ is_mapping' = is_mapping)]_vars

\* scans have been mapped, mapping was stopped, and odometry has moved the
\* pose since
C19_Witness ==
    /\ occupancy_grid["slam1"] # NewGrid
    /\ total_scans_processed["slam1"] > 0
    /\ ~is_mapping["slam1"]
    /\ pose_history["slam1"] # << >>
    /\ current_pose["slam1"].x # 0

\* C20: the first update_odometry call after construction, whatever the
\* velocities, changes none of x, y, theta and timestamp and appends nothing
\* to pose_history; it records the time baseline and nothing else.
C20_FirstOdometryOnlyBaseline ==
    [][\A s \in Slams :
          (last_odom_time[s] = << >> /\ last_odom_time'[s] # << >>)
          => /\ current_pose'[s] = current_pose[s]
             /\ pose_history'[s] = pose_history[s]
             /\ current_pose'[s] = Pose(0, 0, 0, 0)
             /\ pose_history'[s] = << >>
             /\ occupancy_grid' = occupancy_grid]_vars

\* the first call was made at a time later than the construction, and the
\* pose is still the initial one
C20_Witness ==
    /\ last_odom_time["slam1"] = <<1>>
    /\ current_pose["slam1"] = Pose(0, 0, 0, 0)
    /\ pose_history["slam1"] = << >>

\* C21: an update_odometry call that finds a baseline and a clock that has
\* advanced appends exactly one snapshot, equal to the pose it has just
\* computed, behind the snapshots already held, of which the oldest is
\* dropped when 1000 are held; a call that finds a clock that has not
\* advanced leaves pose and history as they are; the history never holds
\* more than 1000 snapshots.
C21_HistoryHoldsLatestSnapshots ==
    [][\A s \in Slams :
          /\ Len(pose_history'[s]) <= 1000
          /\ (/\ last_odom_time[s] # << >>
              /\ last_odom_time'[s] # << >>
              /\ last_odom_time'[s][1] > last_odom_time[s][1])
             => /\ pose_history'[s] =
                       (IF Len(pose_history[s]) = 1000
                        THEN Tail(pose_history[s])
                        ELSE pose_history[s]) \o <<current_pose'[s]>>
                /\ current_pose'[s].timestamp = last_odom_time'[s][1]
          /\ (/\ last_odom_time[s] # << >>
              /\ last_odom_time'[s] # << >>
              /\ last_odom_time'[s][1] <= last_odom_time[s][1])
             => /\ current_pose'[s] = current_pose[s]
                /\ pose_history'[s] = pose_history[s]]_vars

\* the history is full, its oldest snapshots have been evicted, and the last
\* call found a clock that had stepped back
C21_Witness ==
    /\ Len(pose_history["slam1"]) = 1000
    /\ pose_history["slam1"][1].x > 50
    /\ pose_history["slam1"][1000] = current_pose["slam1"]
    /\ last_odom_time["slam1"] = <<0>>

\* C22: when a call of reset() has ended, x, y and theta are 0 and the pose
\* history is empty, and no time baseline is left, so that the next
\* update_odometry call integrates nothing.
C22_ResetZeroesPose ==
    [][\A c \in Callers, s \in Slams :
          (cpc[c] = "idle" /\ cpc'[c] = "attribute_error" /\ s \in built)
          => /\ current_pose'[s].x = 0
             /\ current_pose'[s].y = 0
             /\ current_pose'[s].theta = 0
             /\ pose_history'[s] = << >>
             /\ last_odom_time'[s] = << >>]_vars

\* the angular distance of two directions on the circle, between 0 and 180
\* degrees
CircularDiff(angle, direction) ==
    LET m == (angle - direction) % FullCircle
    IN  IF m > 180 * AngleUnit THEN FullCircle - m ELSE m

\* C23: for every direction and cone angle, get_obstacles_in_direction
\* returns an ascending list that holds each distance as often as there are
\* valid points of current_scan at that distance within cone_angle / 2 of
\* the direction on the circle, and the empty list when there is no scan.
C23_ObstaclesWithinCone ==
    \A direction \in ConeDirections, cone_angle \in ConeAngles :
       LET obstacles == get_obstacles_in_direction(current_scan, direction * AngleUnit,
                                                   cone_angle * AngleUnit)
           within == IF current_scan = << >> THEN {}
                     ELSE {i \in DOMAIN current_scan[1].points :
                              /\ current_scan[1].points[i].valid
                              /\ 2 * CircularDiff(current_scan[1].points[i].angle,
                                                  direction * AngleUnit)
                                    <= cone_angle * AngleUnit}
       IN  /\ \A k \in 1..(Len(obstacles) - 1) : obstacles[k] <= obstacles[k + 1]
           /\ Len(obstacles) = Cardinality(within)
           /\ \A i \in within :
                  Cardinality({k \in DOMAIN obstacles :
                                  obstacles[k] = current_scan[1].points[i].distance})
                  = Cardinality({j \in within :
                                    current_scan[1].points[j].distance
                                    = current_scan[1].points[i].distance})

\* the poses as update_odometry calls left them, or as constructed: the
\* initial pose, the snapshots of the history, and the current pose unless
\* a call has written theta and not yet x and y
CompletedPoses(s) ==
    {RobotOf(Pose(0, 0, 0, 0))}
    \cup {RobotOf(pose_history[s][i]) : i \in DOMAIN pose_history[s]}
    \cup (IF \E c \in Callers : cpc[c] \in {"odom_x", "odom_y"}
          THEN {}
          ELSE {RobotOf(current_pose[s])})

\* C24: the (robot_x, robot_y, robot_theta) a grid update works with is the
\* pose as one update_odometry call left it (or the initial pose), never
\* fields of two different poses.
C24_PoseReadNotTorn ==
    \A w \in Workers :
       (pc[w] = "in_slam" /\ robot[w] # << >> /\ Len(robot[w][1]) = 3)
       => robot[w][1] \in CompletedPoses(callee[w])

\* the positions of the buffer at which a well-formed frame starts
FramePositions(buffer) ==
    {p \in 1..(Len(buffer) - 46) :
        /\ buffer[p] = 84
        /\ buffer[p + 1] = 44
        /\ WellFormedFrame(SubSeq(buffer, p, p + 46))}

\* C25: while a well-formed frame waits in the bytes of the port, a pass of
\* the read loop either accepts the earliest such frame, which then starts
\* at the read cursor, or consumes only bytes in front of it; no pass reads
\* past the start of the earliest frame without accepting it.
C25_EarliestFrameAccepted ==
    [][\A w \in Workers :
          (serial_reads'[w] = serial_reads[w] + 1 /\ FramePositions(rx) # {})
          => LET p == CHOOSE q \in FramePositions(rx) :
                          \A r \in FramePositions(rx) : q <= r
                 consumed == Len(rx) - Len(rx')
             IN  IF p = 1
                 THEN /\ consumed = 47
                      /\ packets_collected'[w] = packets_collected[w] + 1
                      /\ scan_points'[w] = scan_points[w] \o PacketPoints(SubSeq(rx, 1, 47))
                 ELSE /\ consumed < p
                      /\ packets_collected'[w] = packets_collected[w]]_vars

\* a pass of the read loop of worker w accepts a packet
Accepts(w) == packets_collected'[w] = packets_collected[w] + 1

\* the start angle of the packet accepted in this step and of the packet
\* accepted before it, in centidegrees: the angle of the first of its points
NewStart(w) == scan_points'[w][Len(scan_points[w]) + 1].angle \div 11

PrevStart(w) == scan_points[w][Len(scan_points[w]) - 11].angle \div 11

\* C26: an accepted packet flags completion exactly when a packet was
\* accepted before it in the same assembly and its start angle is smaller
\* than the end angle of that packet by more than 180.00 degrees; so of
\* packets starting at 350, 355, 5 and 10 degrees only the one at 5 degrees
\* flags completion.
C26_CompletionIffWraparound ==
    [][\A w \in Workers :
          Accepts(w)
          => (scan_complete'[w]
              <=> /\ packets_collected[w] > 0
                  /\ last_end_angle[w] # << >>
                  /\ last_end_angle[w][1] - NewStart(w) > 180 * 100)]_vars

\* C27: when the packets advance around the circle (each starts less than
\* 180 degrees after the end of the one before, which spans less than 180
\* degrees) and 0 degrees has been passed between the start of the previous
\* packet and the start of the accepted one, inside the previous packet or
\* between the two, completion is flagged.
C27_EveryCrossingEndsSweep ==
    [][\A w \in Workers :
          (/\ Accepts(w)
           /\ packets_collected[w] > 0
           /\ (last_end_angle[w][1] - PrevStart(w)) % 36000 < 18000
           /\ (NewStart(w) - last_end_angle[w][1]) % 36000 < 18000
           /\ NewStart(w) < PrevStart(w))
          => scan_complete'[w]]_vars

\* C28: when _read_ld19_scan returns a scan, its points are in non-decreasing
\* angle order, no two of them round to the same whole degree, every point
\* is one of the accumulated points, every accumulated point finds in the
\* scan a point of its whole degree whose angle is not larger than its own
\* (valid or not), and total_points is the number of points.
C28_ScanSortedOnePerDegree ==
    [][\A w \in Workers :
          (~simulate /\ processed_scan[w] = << >> /\ processed_scan'[w] # << >>)
          => LET points == processed_scan'[w][1].points
                 accumulated == scan_points[w]
             IN  /\ \A k \in 1..(Len(points) - 1) : points[k].angle <= points[k + 1].angle
                 /\ \A j, k \in DOMAIN points :
                        RoundDeg(points[j].angle) = RoundDeg(points[k].angle) => j = k
                 /\ \A k \in DOMAIN points :
                        \E i \in DOMAIN accumulated : accumulated[i] = points[k]
                 /\ \A i \in DOMAIN accumulated :
                        \E k \in DOMAIN points :
                           /\ RoundDeg(points[k].angle) = RoundDeg(accumulated[i].angle)
                           /\ points[k].angle <= accumulated[i].angle
                 /\ processed_scan'[w][1].total_points = Len(points)]_vars

\* a published scan assembled from 36 accumulated points that wrapped: it
\* starts with the invalid point at 0 degrees, which shares its whole degree
\* with a valid point, and ends with a point of the frame before 0 degrees
C28_Witness ==
    /\ current_scan # << >>
    /\ Len(current_scan[1].points) = 14
    /\ current_scan[1].points[1].angle = 0
    /\ ~current_scan[1].points[1].valid
    /\ current_scan[1].points[14].angle = 35550 * 11
    /\ current_scan[1].points[8].distance = 20

\* C29: while scanning is stopped (is_scanning is False, no stop_scanning or
\* shutdown call is waiting in its join and no start_scanning call is under
\* way, so that the last stop has returned and start_scanning has not been
\* called since), no step changes current_scan, scan_history or total_scans
\* or invokes the scan callback.
C29_NoPublicationWhileStopped ==
    [][(/\ ~is_scanning
        /\ \A c \in Callers : cpc[c] \notin {"stop_join", "shutdown_join", "start_set"})
       => /\ current_scan' = current_scan
          /\ scan_history' = scan_history
          /\ total_scans' = total_scans
          /\ calls' = calls]_vars

\* C30: whenever is_scanning is False while a worker is inside _scan_loop,
\* the worker leaves the loop, unless scanning is started again first; its
\* _read_ld19_scan returns although the port keeps delivering garbage and
\* CRC-failing frames.
C30_WorkerLeavesScanLoop ==
    \A w \in Workers :
       (~is_scanning /\ Alive(w)) ~> (is_scanning \/ ~Alive(w))

\* a worker has left the loop after publishing a scan without points,
\* assembled from rejected bytes until the time limit, and scanning is stopped
C30_Witness ==
    /\ ~simulate
    /\ ~is_scanning
    /\ pc[1] = "done"
    /\ total_scans = 1
    /\ current_scan # << >>
    /\ current_scan[1].points = << >>

\* the sweep of simulation mode as the documentation gives it: point k is at
\* k - 1 degrees
SimulatedSweep(points) ==
    /\ Len(points) = 360
    /\ \A k \in 1..360 :
          /\ points[k].angle = (k - 1) * AngleUnit
          /\ points[k].valid
          /\ points[k].distance =
                 CASE k - 1 \in 170..190 -> 1000
                   [] k - 1 = 90 -> 2000
                   [] k - 1 = 270 -> 1500
                   [] OTHER -> 4000

\* C31: in simulation mode an iteration of the acquisition loop that finds
\* is_scanning set produces one scan of 360 valid points at 0, 1, ..., 359
\* degrees with the documented distances and publishes exactly that scan
\* (current_scan, one more element of scan_history, total_scans + 1), and
\* no worker ever reads the serial port.
C31_SimulatedIterationPublishesSweep ==
    [][simulate =>
          \A w \in Workers :
             /\ pc[w] = "loop" /\ pc'[w] # "loop" /\ is_scanning
                   => /\ pc'[w] = "publish"
                      /\ processed_scan'[w] # << >>
                      /\ SimulatedSweep(processed_scan'[w][1].points)
                      /\ processed_scan'[w][1].total_points = 360
                      /\ current_scan' = processed_scan'[w]
             /\ pc[w] = "publish" /\ pc'[w] # "publish"
                   => /\ scan_history' = Append(scan_history, processed_scan[w][1])
                      /\ total_scans' = total_scans + 1
             /\ pc'[w] \notin {"assemble", "read_error"}
             /\ serial_reads'[w] = 0
             /\ packets_collected'[w] = 0
             /\ serial' = "none"
             /\ rx' = rx]_vars

\* a simulated sweep has been published and handed to the callback
C31_Witness ==
    /\ simulate
    /\ total_scans = 1
    /\ Len(scan_history) = 1
    /\ SimulatedSweep(scan_history[1].points)
    /\ calls # << >>

\* the cells <<x, y>> and <<u, v>> touch by a side or a corner
Adjacent8(a, b) == a # b /\ Abs(a[1] - b[1]) <= 1 /\ Abs(a[2] - b[2]) <= 1

\* C32: a call of _bresenham_line never holds more than
\* max(|x1 - x0|, |y1 - y0|) + 1 cells, so its loop ends; the list returned
\* has exactly that many cells, starts at (x0, y0), ends at (x1, y1), holds
\* no cell twice, and consecutive cells are 8-neighbours; (0,0) to (5,0)
\* gives (0,0), (1,0), ..., (5,0) and (0,0) to (3,3) the four diagonal cells.
C32_BresenhamLine ==
    bresenham # << >> =>
        LET l == bresenham[1]
            n == Max(Abs(l.x1 - l.x0), Abs(l.y1 - l.y0)) + 1
        IN  /\ Len(l.points) <= n
            /\ ~l.returned => Len(l.points) < n
            /\ l.returned =>
                  /\ Len(l.points) = n
                  /\ l.points[1] = <<l.x0, l.y0>>
                  /\ l.points[n] = <<l.x1, l.y1>>
                  /\ \A i, j \in 1..n : i # j => l.points[i] # l.points[j]
                  /\ \A i \in 1..(n - 1) : Adjacent8(l.points[i], l.points[i + 1])
                  /\ <<l.x0, l.y0, l.x1, l.y1>> = <<0, 0, 5, 0>>
                        => l.points = [i \in 1..6 |-> <<i - 1, 0>>]
                  /\ <<l.x0, l.y0, l.x1, l.y1>> = <<0, 0, 3, 3>>
                        => l.points = [i \in 1..4 |-> <<i - 1, i - 1>>]

\* a line of slope between the axis and the diagonal has been returned
C32_Witness ==
    /\ bresenham # << >>
    /\ bresenham[1].returned
    /\ <<bresenham[1].x0, bresenham[1].y0, bresenham[1].x1, bresenham[1].y1>> = <<2, -1, -3, 1>>
    /\ Len(bresenham[1].points) = 6

\* the frame as sent of a frame received with one bit inverted
Sent(received) ==
    CHOOSE frame \in CrcFrames :
        \E k \in 3..47, bit \in 0..7 : received = FlipBit(frame, k, bit)

\* C33: the CRC of the first 46 bytes of a frame received with one bit of
\* those bytes inverted differs from the CRC of the bytes as sent, and a
\* pass of the read loop that reads a frame with one inverted bit behind
\* the header (the CRC byte included) accepts nothing: no packet is counted,
\* no point is added and the sweep is not completed.
C33_SingleBitErrorRejected ==
    [][\A w \in Workers :
          (rx \in FlippedFrames /\ serial_reads'[w] = serial_reads[w] + 1)
             => /\ rx[47] = Sent(rx)[47]
                   => crc8(SubSeq(rx, 1, 46)) # crc8(SubSeq(Sent(rx), 1, 46))
                /\ crc8(SubSeq(rx, 1, 46)) # rx[47]
                /\ rx' = << >>
                /\ packets_collected'[w] = packets_collected[w]
                /\ scan_points'[w] = scan_points[w]
                /\ last_end_angle'[w] = last_end_angle[w]
                /\ scan_complete'[w] = scan_complete[w]]_vars

\* a frame has been accepted as sent, and a later frame with an inverted bit
\* has been read and left the assembly as it was
C33_Witness ==
    /\ pc[1] = "assemble"
    /\ packets_collected[1] = 1
    /\ serial_reads[1] = 2
    /\ rx = << >>

\* C34: a pass of the read loop that accepts a packet of start angle s and
\* end angle e appends 12 points in wire order, point i at
\* (s + i * d / 11) mod 360 with d = e - s, plus 360 when e < s; point 0 is
\* at s mod 360, point 11 is congruent to e modulo 360, every angle is in
\* [0, 360), and from 0 to 33 degrees the angles are 0, 3, ..., 33.  (s, e
\* and d are centidegrees here and the angles units of 1/1100 degree.)
C34_AnglesInterpolated ==
    [][\A w \in Workers :
          packets_collected'[w] = packets_collected[w] + 1 =>
             LET s == rx[5] + 256 * rx[6]
                 e == rx[43] + 256 * rx[44]
                 d == IF e >= s THEN e - s ELSE e - s + 36000
                 n == Len(scan_points[w])
                 angle(i) == scan_points'[w][n + 1 + i].angle
             IN  /\ Len(scan_points'[w]) = n + 12
                 /\ \A i \in 0..11 :
                       /\ angle(i) = (11 * s + i * d) % (360 * 1100)
                       /\ 0 <= angle(i) /\ angle(i) < 360 * 1100
                 /\ angle(0) = (11 * s) % (360 * 1100)
                 /\ (angle(11) - 11 * e) % (360 * 1100) = 0
                 /\ (s = 0 /\ e = 3300) => \A i \in 0..11 : angle(i) = 3 * i * 1100]_vars

\* a packet from 359.99 degrees to 0 degrees has been accepted: its points
\* advance by 0.01 / 11 degree
C34_Witness ==
    /\ packets_collected[1] = 1
    /\ Len(scan_points[1]) = 12
    /\ last_end_angle[1] = <<0>>
    /\ scan_points[1][1].angle = 35999 * 11
    /\ scan_points[1][2].angle = 35999 * 11 + 1

\* C35: the pass that flags completion appends the 12 points of its packet
\* to the accumulated points, and the scan returned next is made of these
\* accumulated points: each of the 12 points is in it or has given way to a
\* point of its whole degree.  An assembly starts with no accumulated point,
\* no remembered end angle and completion not flagged, the accumulated
\* points are always the 12 points of each packet accepted in the assembly
\* under way, and the first packet an assembly accepts never flags
\* completion.
C35_CompletingPacketBelongsToItsScan ==
    [][\A w \in Workers :
          /\ (~scan_complete[w] /\ scan_complete'[w])
             => /\ Accepts(w)
                /\ scan_points'[w] = scan_points[w] \o PacketPoints(SubSeq(rx, 1, 47))
          /\ (scan_complete[w] /\ processed_scan[w] = << >> /\ processed_scan'[w] # << >>)
             => LET points == processed_scan'[w][1].points
                    accumulated == scan_points[w]
                IN  /\ \A k \in DOMAIN points :
                           \E i \in DOMAIN accumulated : accumulated[i] = points[k]
                    /\ \A i \in (Len(accumulated) - 11)..Len(accumulated) :
                           \/ \E k \in DOMAIN points : points[k] = accumulated[i]
                           \/ \E j \in DOMAIN accumulated :
                                 /\ j # i
                                 /\ RoundDeg(accumulated[j].angle) = RoundDeg(accumulated[i].angle)
          /\ (pc[w] = "loop" /\ pc'[w] = "assemble")
             => /\ scan_points'[w] = << >>
                /\ last_end_angle'[w] = << >>
                /\ ~scan_complete'[w]
                /\ packets_collected'[w] = 0
          /\ Len(scan_points'[w]) = 12 * packets_collected'[w]
          /\ (Accepts(w) /\ packets_collected[w] = 0) => ~scan_complete'[w]]_vars

\* a sweep that the frame starting at 5 degrees completed has been published
\* with the point at 5.00 degrees in it, and the next assembly has accepted
\* the frame starting at 10 degrees as its first packet without flagging
\* completion
C35_Witness ==
    /\ total_scans = 1
    /\ \E k \in DOMAIN scan_history[1].points : scan_history[1].points[k].angle = 500 * 11
    /\ packets_collected[1] = 1
    /\ scan_points[1][1].angle = 1000 * 11
    /\ ~scan_complete[1]

\* a worker of a session started after a stop_scanning is at the top of its
\* loop: the first session published a scan, scanning is on again, and the
\* model's counters leave room for an iteration
Restarted ==
    /\ ~simulate
    /\ is_scanning
    /\ serial = "closed"
    /\ total_scans > 0
    /\ Room
    /\ \E w \in Workers : pc[w] = "loop"

\* C36: in hardware mode, when scanning has been started again after a
\* stop_scanning, a scan is eventually returned for publication again,
\* unless scanning is stopped once more.
C36_RestartPublishesAgain ==
    Restarted ~> (~is_scanning \/ \E w \in Workers : pc[w] = "publish")

\* C37: an iteration of Robot.run that finds safety.is_safe() false executes
\* the behaviour of emergency_stop (the state handed to
\* _execute_state_behavior, which _last_state holds afterwards), whatever
\* request is pending.
C37_UnsafeIterationExecutesEmergencyStop ==
    [][\A outcome \in NavigationOutcomes :
          (~safe_state /\ RunIteration(outcome))
          => last_state' = <<"emergency_stop">>]_vars

Moves == {command \in Commands : command.type = "move"}

\* C39: while emergency_stop_active is set, every current speed is zero and
\* the latest step sent only zero speeds; a set_speed, set_all_speeds or
\* set_velocity call, or a move command, made then changes no entry of
\* current_speeds, sends nothing to the controller and leaves the flag set.
\* Only the steps that call reset_emergency_stop (directly, or through
\* reset_emergency and force_reset_emergency of the SafetySystem) clear the
\* flag: no iteration of Robot.run and no command does, whatever state
\* transitions they make.
C39_EmergencyStopHoldsMotors ==
    /\ [](emergency_stop_active
          => /\ \A motor_id \in 1..3 : current_speeds[motor_id] = 0
             /\ \A k \in DOMAIN mc_sent : mc_sent[k][2] = 0
             /\ \A motor_id \in 0..3, speed \in {-900, 0, 200} :
                    set_speed(Platform, motor_id, speed) = Platform
             /\ \A speeds \in { <<<<2, 200>>, <<3, -200>>>>, <<<<1, 800>>>> } :
                    set_all_speeds(Platform, speeds, 1) = Platform
             /\ \A linear_speed \in {-5, 6, 4000}, angular_speed \in {0, 10} :
                    set_velocity(Platform, linear_speed, angular_speed) = Platform
             /\ \A command \in Moves :
                    handle_command(Platform, command)
                        = [Platform EXCEPT !.last_command = <<"move">>])
    /\ [][/\ (emergency_stop_active /\ ~emergency_stop_active')
             => (ResetEmergencyStop \/ ResetEmergency \/ ForceResetEmergency)
          /\ (/\ emergency_stop_active
              /\ \/ \E outcome \in NavigationOutcomes : RunIteration(outcome)
                 \/ \E command \in Commands : HandleCommand(command)
                 \/ \E motor_id \in {0, 2}, speed \in {-900} : SetSpeed(motor_id, speed)
                 \/ \E speeds \in { <<<<2, 200>>, <<3, -200>>>> } : SetAllSpeeds(speeds)
                 \/ SetVelocity(6, 0))
             => /\ emergency_stop_active'
                /\ current_speeds' = current_speeds]_vars

\* after an emergency stop triggered through the SafetySystem the Robot has
\* gone from emergency_stop over idle to manual_control and has handled a
\* move command: the flag is set, every speed is zero and the latest step
\* sent nothing
C39_Witness ==
    /\ emergency_active
    /\ emergency_stop_active
    /\ current_state = "manual_control"
    /\ previous_state = "idle"
    /\ last_state = <<"manual_control">>
    /\ last_command = <<"move">>
    /\ mc_sent = << >>
    /\ \A motor_id \in 1..3 : current_speeds[motor_id] = 0

\* C40: a reset_emergency() that returns True leaves emergency_active false
\* and is_safe() true, so that the next iteration of Robot.run does not
\* force emergency_stop; and while emergency_active is set a further
\* trigger changes nothing and sends nothing: neither
\* motors.emergency_stop() nor the emergency callback is called again.
C40_ResetRestoresOperation ==
    /\ [](emergency_active => trigger_emergency(Platform) = Platform)
    /\ [][(ResetEmergency /\ returned' = <<TRUE>>)
             => (~emergency_active' /\ safe_state')]_vars

====
